---- MODULE Spec2Model ----
(***************************************************************************)
(* Model of the rename planning and execution engine of rename_tool:       *)
(* the conflict resolver, the two plan generators (plan_replace_rename,    *)
(* plan_sequence_rename), validate_plan, the two-phase execute_rename and  *)
(* the recovery utility cleanup_temp_files.                                *)
(*                                                                         *)
(* File names are sequences of one-character strings, so that case         *)
(* folding, substitution, stem/suffix splitting and numeric suffixes are   *)
(* computed the way the code computes them.  A path is a record            *)
(* [dir, name]; the filesystem is a function from the paths that exist to  *)
(* the content stored there.                                               *)
(***************************************************************************)
EXTENDS Integers, Sequences, FiniteSets, TLC

VARIABLES
    fs,        \* the filesystem: path -> content, for the paths that exist
    files,     \* the descriptor list handed to a plan generator
    ci,        \* options.case_insensitive_detect
    call,      \* the most recent generator call: its name and arguments
    plan,      \* the RenamePlan: [ops, warnings, errors]
    occupied,  \* ConflictResolver.occupied: directory -> set of names
    last,      \* the most recent resolver call, its arguments and result
    pc,        \* position inside execute_rename
    dryRun,    \* execute_rename's dry_run argument
    logDir,    \* whether a log_dir was supplied to execute_rename
    posix,     \* TRUE: os.rename replaces an existing file; FALSE: it fails
    idx,       \* loop index of the running phase
    tempMap,   \* temp_mapping: sequence of [op, temp]
    result,    \* RenameResult: [success, failed, skipped]
    fs0,       \* the filesystem when execute_rename was entered
    log,       \* what execute_rename did: renames, log writes, callbacks
    items,     \* cleanup_temp_files: the entries directory.iterdir() yields
    at,        \* cleanup_temp_files: position in items, 0 before the call
    count      \* cleanup_temp_files: the count it returns

vars == <<fs, files, ci, call, plan, occupied, last, pc, dryRun, logDir,
          posix, idx, tempMap, result, fs0, log, items, at, count>>

planVars == <<files, ci, call, plan>>
resolverVars == <<occupied, last>>
cleanupVars == <<items, at, count>>
execVars == <<pc, dryRun, logDir, posix, idx, tempMap, result, fs0, log,
              cleanupVars>>

-----------------------------------------------------------------------------
(* Bounds of the model.                                                    *)

MaxDisk == 2      \* files on disk when a generator is called
MaxBatch == 2     \* descriptors handed to a generator
MaxStart == 2     \* largest starting number of a sequence plan
MaxOps == 2       \* operations of a hand-built plan given to execute_rename
MaxCalls == 3     \* resolver calls in one resolver history

-----------------------------------------------------------------------------
(* Characters and strings.                                                 *)

LowerLetters ==
    <<"a","b","c","d","e","f","g","h","i","j","k","l","m",
      "n","o","p","q","r","s","t","u","v","w","x","y","z">>

UpperLetters ==
    <<"A","B","C","D","E","F","G","H","I","J","K","L","M",
      "N","O","P","Q","R","S","T","U","V","W","X","Y","Z">>

Digits == <<"0","1","2","3","4","5","6","7","8","9">>

IndexIn(c, table) == CHOOSE i \in 1..Len(table) : table[i] = c

IsIn(c, table) == \E i \in 1..Len(table) : table[i] = c

Specials == {" ", "*", "-", ".", "/", ":", ">", "_"}

Chars ==
    { LowerLetters[i] : i \in 1..Len(LowerLetters) }
    \cup { UpperLetters[i] : i \in 1..Len(UpperLetters) }
    \cup { Digits[i] : i \in 1..Len(Digits) }
    \cup Specials

\* Code points of the characters the model uses (Python compares strings
\* by code point).
OrdTable ==
    [c \in Chars |->
        IF IsIn(c, LowerLetters) THEN 96 + IndexIn(c, LowerLetters)
        ELSE IF IsIn(c, UpperLetters) THEN 64 + IndexIn(c, UpperLetters)
        ELSE IF IsIn(c, Digits) THEN 47 + IndexIn(c, Digits)
        ELSE CASE c = " " -> 32 [] c = "*" -> 42 [] c = "-" -> 45
               [] c = "." -> 46 [] c = "/" -> 47 [] c = ":" -> 58
               [] c = ">" -> 62 [] OTHER -> 95]

Ord(c) == OrdTable[c]

\* str.lower() on one character.
LowerTable ==
    [c \in Chars |->
        IF IsIn(c, UpperLetters) THEN LowerLetters[IndexIn(c, UpperLetters)]
        ELSE c]

LowerChar(c) == LowerTable[c]

\* str.upper() on one character.
UpperTable ==
    [c \in Chars |->
        IF IsIn(c, LowerLetters) THEN UpperLetters[IndexIn(c, LowerLetters)]
        ELSE c]

UpperChar(c) == UpperTable[c]

Lower(s) == [i \in 1..Len(s) |-> LowerChar(s[i])]
Upper(s) == [i \in 1..Len(s) |-> UpperChar(s[i])]

\* str.casefold(): on the characters of the model it is the lower-case map.
CaseFold(s) == [i \in 1..Len(s) |-> LowerChar(s[i])]

\* Python's < on strings: lexicographic by code point.
RECURSIVE StrLess(_, _)
StrLess(a, b) ==
    IF b = <<>> THEN FALSE
    ELSE IF a = <<>> THEN TRUE
    ELSE IF Ord(Head(a)) # Ord(Head(b)) THEN Ord(Head(a)) < Ord(Head(b))
    ELSE StrLess(Tail(a), Tail(b))

\* s[i-1:] of Python for a 1-based i.
From(s, i) == SubSeq(s, i, Len(s))

\* text[i-1:].startswith(old), compared exactly or ignoring case.
MatchAt(text, old, i, caseSensitive) ==
    /\ i + Len(old) - 1 <= Len(text)
    /\ \A k \in 1..Len(old) :
          IF caseSensitive THEN text[i + k - 1] = old[k]
          ELSE LowerChar(text[i + k - 1]) = LowerChar(old[k])

\* 1-based position of the last "." of a name, 0 when it has none
\* (name.rfind('.') + 1).
RECURSIVE RFindDot(_, _)
RFindDot(s, i) ==
    IF i = 0 THEN 0
    ELSE IF s[i] = "." THEN i
    ELSE RFindDot(s, i - 1)

\* pathlib: the suffix starts at the last dot, unless that dot is the first
\* or the last character of the name.
PathSuffix(name) ==
    LET i == RFindDot(name, Len(name))
    IN  IF 1 < i /\ i < Len(name) THEN From(name, i) ELSE <<>>

PathStem(name) ==
    LET i == RFindDot(name, Len(name))
    IN  IF 1 < i /\ i < Len(name) THEN SubSeq(name, 1, i - 1) ELSE name

Digit(d) == Digits[d + 1]

\* str(n) for n >= 0.
RECURSIVE DecStr(_)
DecStr(n) ==
    IF n < 10 THEN <<Digit(n)>>
    ELSE DecStr(n \div 10) \o <<Digit(n % 10)>>

\* s.zfill(width) for a string of digits.
RECURSIVE ZFill(_, _)
ZFill(s, width) ==
    IF Len(s) >= width THEN s ELSE ZFill(<<"0">> \o s, width)

Path(d, n) == [dir |-> d, name |-> n]

\* str(path)
PathStr(p) == p.dir \o <<"/">> \o p.name

-----------------------------------------------------------------------------
(* text_match.py                                                           *)

\* One left-to-right pass replacing every non-overlapping occurrence of old:
\* str.replace(old, new) when case-sensitive, re.sub with re.IGNORECASE over
\* the escaped pattern otherwise (new holds no backslash in this model, so
\* the replacement template is literal).
RECURSIVE ReplaceFrom(_, _, _, _, _)
ReplaceFrom(text, old, new, i, caseSensitive) ==
    IF i > Len(text) THEN <<>>
    ELSE IF MatchAt(text, old, i, caseSensitive)
         THEN new \o ReplaceFrom(text, old, new, i + Len(old), caseSensitive)
         ELSE <<text[i]>> \o ReplaceFrom(text, old, new, i + 1, caseSensitive)

replace_text(text, old, new, caseSensitive) ==
    IF old = <<>> THEN text
    ELSE ReplaceFrom(text, old, new, 1, caseSensitive)

InvalidChars == {"<", ">", ":", "\"", "/", "\\", "|", "?", "*"}

ReservedNames ==
    { <<"C","O","N">>, <<"P","R","N">>, <<"A","U","X">>, <<"N","U","L">> }
    \cup { <<"C","O","M", Digit(d)>> : d \in 1..9 }
    \cup { <<"L","P","T", Digit(d)>> : d \in 1..9 }

MaxNameLen == 255

\* name.split('.')[0]
BeforeFirstDot(s) ==
    LET dots == { i \in 1..Len(s) : s[i] = "." }
    IN IF dots = {} THEN s
       ELSE SubSeq(s, 1, (CHOOSE i \in dots : \A j \in dots : i <= j) - 1)

\* The reason is_valid_filename gives, "" when the name is valid.
InvalidReason(name) ==
    IF name = <<>> THEN "Filename cannot be empty"
    ELSE IF \E i \in 1..Len(name) : name[i] \in InvalidChars
         THEN "Filename contains invalid character"
    ELSE IF name[Len(name)] = " " \/ name[Len(name)] = "."
         THEN "Filename cannot end with space or dot"
    ELSE IF BeforeFirstDot(Upper(name)) \in ReservedNames
         THEN "Filename is a Windows reserved name"
    ELSE IF Len(name) > MaxNameLen
         THEN "Filename exceeds 255 characters"
    ELSE ""

is_valid_filename(name) == InvalidReason(name) = ""

-----------------------------------------------------------------------------
(* models_fs.py                                                            *)

SortKeys == {"mtime", "size", "name", "ctime"}

\* FileItem.from_path: the descriptor of the file at path p, whose stat
\* gave the metadata m.
FromPath(p, m) ==
    [path |-> p, name |-> p.name, stem |-> PathStem(p.name),
     suffix |-> PathSuffix(p.name),
     size |-> m.size, mtime |-> m.mtime, ctime |-> m.ctime]

normalize_for_comparison(name, caseInsensitive) ==
    IF caseInsensitive THEN CaseFold(name) ELSE name

RenameOp(src, dst, note) == [src |-> src, dst |-> dst, note |-> note]

is_same(op) == op.src = op.dst

is_case_only_change(op) ==
    /\ op.src.dir = op.dst.dir
    /\ Lower(op.src.name) = Lower(op.dst.name)
    /\ op.src.name # op.dst.name

\* RenamePlan(): no operation, no warning, no error.  raised marks a
\* generator call that ended in an exception instead of returning a plan.
EmptyPlan == [ops |-> <<>>, warnings |-> <<>>, errors |-> <<>>, raised |-> FALSE]

\* valid_ops that keeps every operation.
valid_ops_all(p) == p.ops

valid_ops(p) == SelectSeq(p.ops, LAMBDA op : ~is_same(op))

total_count(p) == Len(valid_ops(p))

-----------------------------------------------------------------------------
(* sort_rules.py                                                           *)

\* sorted(s, key=...): the stable sort of s, where before[i][j] says that
\* the key of s[i] is smaller than the key of s[j].  Elements with equal
\* keys keep their order.
StableSort(s, before) ==
    LET n == Len(s)
        rank(i) ==
            Cardinality({ j \in 1..n :
                \/ before[j][i]
                \/ (~before[i][j] /\ j < i) })
    IN  [k \in 1..n |-> s[CHOOSE i \in 1..n : rank(i) = k - 1]]

\* get_sort_key: (criterion, name.lower()), or name.lower() alone.
KeyLess(sortBy, a, b) ==
    LET an == Lower(a.name)
        bn == Lower(b.name)
        pair(x, y) == x < y \/ (x = y /\ StrLess(an, bn))
    IN  CASE sortBy = "mtime" -> pair(a.mtime, b.mtime)
          [] sortBy = "size"  -> pair(a.size, b.size)
          [] sortBy = "ctime" -> pair(a.ctime, b.ctime)
          [] OTHER            -> StrLess(an, bn)

\* sorted(..., reverse=True) orders by descending key and still keeps the
\* order of elements with equal keys.
sort_files(fl, sortBy, reverse) ==
    StableSort(fl, [i \in 1..Len(fl) |-> [j \in 1..Len(fl) |->
        IF reverse THEN KeyLess(sortBy, fl[j], fl[i])
        ELSE KeyLess(sortBy, fl[i], fl[j])]])

sort_by_path(fl) ==
    StableSort(fl, [i \in 1..Len(fl) |-> [j \in 1..Len(fl) |->
        StrLess(Lower(PathStr(fl[i].path)), Lower(PathStr(fl[j].path)))]])

-----------------------------------------------------------------------------
(* scan_files.py                                                           *)

\* get_existing_names: the names of the files of a directory, case-folded
\* under the case-insensitive policy.  Every entry of the modelled
\* filesystem is a regular file.
get_existing_names(disk, directory, caseInsensitive) ==
    { IF caseInsensitive THEN CaseFold(p.name) ELSE p.name :
        p \in { q \in DOMAIN disk : q.dir = directory } }

-----------------------------------------------------------------------------
(* plan_rename.py: ConflictResolver                                        *)

\* The directories of the model.  Their paths differ only in letter case.
Dirs == { <<"d">>, <<"D">> }

\* ConflictResolver(): no name occupied in any directory (a defaultdict
\* of sets).
NewResolver == [d \in Dirs |-> {}]

add_existing(occ, cif, directory, names) ==
    [occ EXCEPT ![directory] =
        @ \cup { normalize_for_comparison(n, cif) : n \in names }]

\* remove_participating that releases nothing.
remove_participating_nothing(occ, cif, directory, names) == occ

\* remove_participating that releases the names as given, not normalized.
remove_participating_exact(occ, cif, directory, names) ==
    [occ EXCEPT ![directory] = @ \ names]

remove_participating(occ, cif, directory, names) ==
    [occ EXCEPT ![directory] =
        @ \ { normalize_for_comparison(n, cif) : n \in names }]

is_occupied(occ, cif, directory, name) ==
    normalize_for_comparison(name, cif) \in occ[directory]

\* mark_occupied that stores the name as given, not normalized.
mark_occupied_exact(occ, cif, directory, name) ==
    [occ EXCEPT ![directory] = @ \cup {name}]

mark_occupied(occ, cif, directory, name) ==
    [occ EXCEPT ![directory] = @ \cup { normalize_for_comparison(name, cif) }]

\* The safety limit of resolve's loop.
ResolveLimit == 10000

\* f"{stem}_{n}{suffix}"
Candidate(stem, suffix, n) == stem \o <<"_">> \o DecStr(n) \o suffix

\* A loop that gives up one candidate before the limit.
ResolveFromShort(occ, cif, directory, stem, suffix, n) ==
    LET taken(k) ==
            is_occupied(occ, cif, directory, Candidate(stem, suffix, k))
        limit == ResolveLimit - 1
    IN  IF \E k \in n..limit : ~taken(k)
        THEN LET first == CHOOSE k \in n..limit :
                              ~taken(k) /\ \A j \in n..(k - 1) : taken(j)
                 candidate == Candidate(stem, suffix, first)
             IN  [name |-> candidate, conflict |-> TRUE, raised |-> FALSE,
                  occ |-> mark_occupied(occ, cif, directory, candidate),
                  checks |-> first - n + 1]
        ELSE [name |-> <<>>, conflict |-> TRUE, raised |-> TRUE, occ |-> occ,
              checks |-> limit - n + 1]

\* The loop of resolve from candidate n on: the first free candidate is
\* claimed and returned; RuntimeError once n exceeds the limit.  checks
\* counts the candidates the loop tested.  (The loop is written as a
\* search for the smallest free n, so that it can be evaluated up to the
\* limit without deep recursion.)
ResolveFrom(occ, cif, directory, stem, suffix, n) ==
    LET taken(k) ==
            is_occupied(occ, cif, directory, Candidate(stem, suffix, k))
    IN  IF \E k \in n..ResolveLimit : ~taken(k)
        THEN LET first == CHOOSE k \in n..ResolveLimit :
                              ~taken(k) /\ \A j \in n..(k - 1) : taken(j)
                 candidate == Candidate(stem, suffix, first)
             IN  [name |-> candidate, conflict |-> TRUE, raised |-> FALSE,
                  occ |-> mark_occupied(occ, cif, directory, candidate),
                  checks |-> first - n + 1]
        ELSE [name |-> <<>>, conflict |-> TRUE, raised |-> TRUE, occ |-> occ,
              checks |-> ResolveLimit - n + 1]

\* ConflictResolver.resolve: the name returned, whether a conflict
\* occurred, the resolver's state afterwards, and whether it raised.
resolve(occ, cif, directory, desired) ==
    IF ~is_occupied(occ, cif, directory, desired)
    THEN [name |-> desired, conflict |-> FALSE, raised |-> FALSE,
          occ |-> mark_occupied(occ, cif, directory, desired), checks |-> 0]
    ELSE ResolveFrom(occ, cif, directory,
                     PathStem(desired), PathSuffix(desired), 1)

-----------------------------------------------------------------------------
(* plan_rename.py: the plan generators                                     *)

\* The keys of files_by_dir in insertion order.
RECURSIVE DirOrder(_)
DirOrder(fl) ==
    IF fl = <<>> THEN <<>>
    ELSE LET d == Head(fl).path.dir
         IN  <<d>> \o DirOrder(SelectSeq(Tail(fl), LAMBDA f : f.path.dir # d))

\* files_by_dir[directory]
DirFiles(fl, directory) == SelectSeq(fl, LAMBDA f : f.path.dir = directory)

\* The resolver as both generators prepare it for a directory: seeded with
\* the names on disk, the batch's own names released.
SeededResolver(disk, cif, directory, batch) ==
    remove_participating(
        add_existing(NewResolver, cif, directory,
                     get_existing_names(disk, directory, cif)),
        cif, directory, { batch[i].name : i \in 1..Len(batch) })

ConflictNote(newName, finalName) ==
    <<"conflict resolved: ">> \o newName \o <<" -> ">> \o finalName

SkipWarning(f, reason) == <<"Skip ">> \o PathStr(f.path) \o <<": ", reason>>

\* A generator that turns an illegal desired name into a plan error.
PlanOneAborting(st, cif, directory, f, newName) ==
    IF ~is_valid_filename(newName)
    THEN [st EXCEPT !.plan.errors = Append(@, InvalidReason(newName))]
    ELSE LET r == resolve(st.occ, cif, directory, newName)
         IN  IF r.raised THEN [st EXCEPT !.plan.raised = TRUE]
             ELSE [occ |-> r.occ,
                   plan |-> [st.plan EXCEPT !.ops =
                       Append(@, RenameOp(f.path, Path(directory, r.name),
                           IF r.conflict THEN ConflictNote(newName, r.name)
                           ELSE <<>>))]]

\* A generator that catches the resolver's RuntimeError and records it as
\* a plan error.
PlanOneReporting(st, cif, directory, f, newName) ==
    IF ~is_valid_filename(newName)
    THEN [st EXCEPT !.plan.warnings =
              Append(@, SkipWarning(f, InvalidReason(newName)))]
    ELSE LET r == resolve(st.occ, cif, directory, newName)
         IN  IF r.raised
             THEN [st EXCEPT !.plan.errors = Append(@, "resolver exhausted")]
             ELSE [occ |-> r.occ,
                   plan |-> [st.plan EXCEPT !.ops =
                       Append(@, RenameOp(f.path, Path(directory, r.name),
                           IF r.conflict THEN ConflictNote(newName, r.name)
                           ELSE <<>>))]]

\* The tail shared by both generators for one file: validate the desired
\* name, resolve it, append the operation.  st is the loop's state:
\* the resolver's occupied sets and the plan built so far.
\* A generator that does not validate the desired name.
PlanOneUnvalidated(st, cif, directory, f, newName) ==
    LET r == resolve(st.occ, cif, directory, newName)
    IN  IF r.raised THEN [st EXCEPT !.plan.raised = TRUE]
        ELSE [occ |-> r.occ,
              plan |-> [st.plan EXCEPT !.ops =
                  Append(@, RenameOp(f.path, Path(directory, r.name),
                      IF r.conflict THEN ConflictNote(newName, r.name)
                      ELSE <<>>))]]

PlanOne(st, cif, directory, f, newName) ==
    IF ~is_valid_filename(newName)
    THEN [st EXCEPT !.plan.warnings =
              Append(@, SkipWarning(f, InvalidReason(newName)))]
    ELSE LET r == resolve(st.occ, cif, directory, newName)
         IN  IF r.raised THEN [st EXCEPT !.plan.raised = TRUE]
             ELSE [occ |-> r.occ,
                   plan |-> [st.plan EXCEPT !.ops =
                       Append(@, RenameOp(f.path, Path(directory, r.name),
                           IF r.conflict THEN ConflictNote(newName, r.name)
                           ELSE <<>>))]]

\* The loop of plan_replace_rename without the skip of unchanged names.
RECURSIVE ReplaceLoopNoSkip(_, _, _, _, _, _, _, _)
ReplaceLoopNoSkip(st, cif, directory, dirFiles, i, old, new, caseSensitive) ==
    IF i > Len(dirFiles) \/ st.plan.raised THEN st
    ELSE LET f == dirFiles[i]
             newName == replace_text(f.name, old, new, caseSensitive)
         IN  ReplaceLoopNoSkip(PlanOne(st, cif, directory, f, newName),
                               cif, directory, dirFiles, i + 1,
                               old, new, caseSensitive)

\* The per-file loop of plan_replace_rename over one directory's files.
RECURSIVE ReplaceLoop(_, _, _, _, _, _, _, _)
ReplaceLoop(st, cif, directory, dirFiles, i, old, new, caseSensitive) ==
    IF i > Len(dirFiles) \/ st.plan.raised THEN st
    ELSE LET f == dirFiles[i]
             newName == replace_text(f.name, old, new, caseSensitive)
             st2 == IF newName = f.name THEN st
                    ELSE PlanOne(st, cif, directory, f, newName)
         IN  ReplaceLoop(st2, cif, directory, dirFiles, i + 1,
                         old, new, caseSensitive)

\* The loop of plan_replace_rename over the directories of the batch.
RECURSIVE ReplaceDirs(_, _, _, _, _, _, _, _)
ReplaceDirs(p, disk, cif, fl, dirs, old, new, caseSensitive) ==
    IF dirs = <<>> \/ p.raised THEN p
    ELSE LET directory == Head(dirs)
             dirFiles == sort_by_path(DirFiles(fl, directory))
             st == [occ |-> SeededResolver(disk, cif, directory, dirFiles),
                    plan |-> p]
             done == ReplaceLoop(st, cif, directory, dirFiles, 1,
                                 old, new, caseSensitive)
         IN  ReplaceDirs(done.plan, disk, cif, fl, Tail(dirs),
                         old, new, caseSensitive)

\* plan_replace_rename without the check of the old string.
plan_replace_rename_unchecked(disk, fl, old, new, caseSensitive, cif) ==
    ReplaceDirs(EmptyPlan, disk, cif, fl, DirOrder(fl),
                old, new, caseSensitive)

plan_replace_rename(disk, fl, old, new, caseSensitive, cif) ==
    IF old = <<>>
    THEN [EmptyPlan EXCEPT !.errors =
              <<"Replacement string cannot be empty">>]
    ELSE ReplaceDirs(EmptyPlan, disk, cif, fl, DirOrder(fl),
                     old, new, caseSensitive)

\* The number string without zero padding.
NumStrUnpadded(num, padding) == DecStr(num)

\* The number string of a sequence plan.
NumStr(num, padding) ==
    IF padding > 0 THEN ZFill(DecStr(num), padding) ELSE DecStr(num)

\* f"{prefix}{num_str}{suffix_str}{f.suffix}"
SequenceName(f, num, padding, prefix, suffixStr) ==
    prefix \o NumStr(num, padding) \o suffixStr \o f.suffix

\* The loop of plan_sequence_rename with the skip of unchanged names that
\* plan_replace_rename has.
RECURSIVE SequenceLoopSkipping(_, _, _, _, _, _, _, _, _)
SequenceLoopSkipping(st, cif, directory, sorted, i, start, padding, prefix, suffixStr) ==
    IF i > Len(sorted) \/ st.plan.raised THEN st
    ELSE LET f == sorted[i]
             newName == SequenceName(f, start + (i - 1), padding,
                                     prefix, suffixStr)
             st2 == IF newName = f.name THEN st
                    ELSE PlanOne(st, cif, directory, f, newName)
         IN  SequenceLoopSkipping(st2, cif, directory, sorted, i + 1,
                                  start, padding, prefix, suffixStr)

\* The per-file loop of plan_sequence_rename.
RECURSIVE SequenceLoop(_, _, _, _, _, _, _, _, _)
SequenceLoop(st, cif, directory, sorted, i, start, padding, prefix, suffixStr) ==
    IF i > Len(sorted) \/ st.plan.raised THEN st
    ELSE LET f == sorted[i]
             newName == SequenceName(f, start + (i - 1), padding,
                                     prefix, suffixStr)
         IN  SequenceLoop(PlanOne(st, cif, directory, f, newName),
                          cif, directory, sorted, i + 1,
                          start, padding, prefix, suffixStr)

\* plan_sequence_rename without the check that all files share one
\* directory: it numbers the batch inside the first file's directory.
plan_sequence_rename_anydir(disk, fl, sortBy, reverse, start, padding, prefix, suffixStr, cif) ==
    IF fl = <<>> THEN EmptyPlan
    ELSE LET directory == fl[1].path.dir
             st == [occ |-> SeededResolver(disk, cif, directory, fl),
                    plan |-> EmptyPlan]
         IN  SequenceLoop(st, cif, directory,
                          sort_files(fl, sortBy, reverse), 1,
                          start, padding, prefix, suffixStr).plan

plan_sequence_rename(disk, fl, sortBy, reverse, start, padding, prefix, suffixStr, cif) ==
    LET directories == { fl[i].path.dir : i \in 1..Len(fl) }
    IN  IF fl = <<>> THEN EmptyPlan
        ELSE IF Cardinality(directories) > 1
        THEN [EmptyPlan EXCEPT !.errors =
                 <<"Sequential naming can only be done in the same directory">>]
        ELSE LET directory == CHOOSE d \in directories : TRUE
                 st == [occ |-> SeededResolver(disk, cif, directory, fl),
                        plan |-> EmptyPlan]
             IN  SequenceLoop(st, cif, directory,
                              sort_files(fl, sortBy, reverse), 1,
                              start, padding, prefix, suffixStr).plan

\* The keys of validate_plan's duplicate-destination check that more than
\* one operation shares.
DuplicateDestinations(p, cif) ==
    LET key(op) == IF cif THEN Lower(PathStr(op.dst)) ELSE PathStr(op.dst)
    IN  { k \in { key(p.ops[i]) : i \in 1..Len(p.ops) } :
            Cardinality({ i \in 1..Len(p.ops) : key(p.ops[i]) = k }) > 1 }

\* validate_plan: one error per missing source, one per shared destination.
validate_plan(p, disk, cif) ==
    [missing |-> { i \in 1..Len(p.ops) : p.ops[i].src \notin DOMAIN disk },
     duplicates |-> DuplicateDestinations(p, cif)]

-----------------------------------------------------------------------------
(* Inputs of the model.                                                    *)

BoundedSeq(S, n) == UNION { [1..k -> S] : k \in 0..n }

\* A name of n letters.
LongName(n) == [i \in 1..n |-> "a"]

Name1t == <<"1", ".", "t">>
Name2t == <<"2", ".", "t">>
Nameat == <<"a", ".", "t">>
NameAt == <<"A", ".", "t">>
Name21t == <<"2", "_", "1", ".", "t">>
Namea == <<"a">>

\* The paths a generator's directory tree may hold.
PlanPaths ==
    { Path(<<"d">>, n) :
        n \in {Name1t, Name2t, Nameat, NameAt, Name21t, Namea} }
    \cup { Path(<<"D">>, Name1t) }

\* The stat results a descriptor may carry.
Metas ==
    { [mtime |-> 1, size |-> 2, ctime |-> 1],
      [mtime |-> 2, size |-> 1, ctime |-> 1] }

OldStrs == { <<>>, <<"1">>, <<"a">> }
NewStrs == { <<"2">>, <<"A">>, <<"*">>, <<"C", "O", "N">> }

\* The number formats of a sequence plan: padding, prefix, suffix string.
Formats ==
    { [padding |-> 0, prefix |-> <<>>, suffixStr |-> <<>>],
      [padding |-> 2, prefix |-> <<"a">>, suffixStr |-> <<>>],
      [padding |-> 0, prefix |-> <<>>, suffixStr |-> <<"_", "1">>],
      [padding |-> 0, prefix |-> <<>>, suffixStr |-> <<".">>] }

\* A filesystem holding the paths S, each with its own content.
DiskOf(S) == [p \in S |-> p]

NoCall ==
    [fn |-> "none", old |-> <<>>, new |-> <<>>, caseSensitive |-> TRUE,
     sortBy |-> "mtime", reverse |-> FALSE, start |-> 1, padding |-> 0,
     prefix |-> <<>>, suffixStr |-> <<>>]

NoLast ==
    [op |-> "none", dir |-> <<"d">>, desired |-> <<>>, name |-> <<>>,
     conflict |-> FALSE, raised |-> FALSE, before |-> NewResolver, calls |-> 0,
     checks |-> 0]

EmptyResult == [success |-> <<>>, failed |-> <<>>, skipped |-> <<>>]

ResolverIdle == occupied = NewResolver /\ last = NoLast

ExecIdle ==
    /\ pc = "idle" /\ dryRun = FALSE /\ logDir = FALSE /\ posix = TRUE
    /\ idx = 0 /\ tempMap = <<>> /\ result = EmptyResult
    /\ fs0 = fs /\ log = <<>>
    /\ items = <<>> /\ at = 0 /\ count = 0

-----------------------------------------------------------------------------
(* The plan generators as a state machine: a directory tree and a batch of *)
(* descriptors of its files are given, and one generator is called.        *)

InitPlan ==
    /\ \E S \in SUBSET PlanPaths :
          /\ Cardinality(S) <= MaxDisk
          /\ fs = DiskOf(S)
    /\ ci \in BOOLEAN
    /\ files \in BoundedSeq({ FromPath(p, m) : p \in DOMAIN fs, m \in Metas },
                            MaxBatch)
    /\ call = NoCall
    /\ plan = EmptyPlan
    /\ ResolverIdle
    /\ ExecIdle

PlanReplace ==
    /\ call.fn = "none"
    /\ \E old \in OldStrs, new \in NewStrs, caseSensitive \in BOOLEAN :
          /\ call' = [NoCall EXCEPT !.fn = "replace", !.old = old,
                          !.new = new, !.caseSensitive = caseSensitive]
          /\ plan' = plan_replace_rename(fs, files, old, new, caseSensitive, ci)
    /\ UNCHANGED <<fs, files, ci, resolverVars, execVars>>

PlanSequence ==
    /\ call.fn = "none"
    /\ \E sortBy \in SortKeys, reverse \in BOOLEAN, start \in 1..MaxStart,
          fmt \in Formats :
          /\ call' = [NoCall EXCEPT !.fn = "sequence", !.sortBy = sortBy,
                          !.reverse = reverse, !.start = start,
                          !.padding = fmt.padding, !.prefix = fmt.prefix,
                          !.suffixStr = fmt.suffixStr]
          /\ plan' = plan_sequence_rename(fs, files, sortBy, reverse, start,
                                          fmt.padding, fmt.prefix,
                                          fmt.suffixStr, ci)
    /\ UNCHANGED <<fs, files, ci, resolverVars, execVars>>

NextPlan == PlanReplace \/ PlanSequence

SpecPlan == InitPlan /\ [][NextPlan]_vars

-----------------------------------------------------------------------------
(* The generators called with a RenameOptions value.  Of the options they  *)
(* read case_insensitive_detect and nothing else; the plan they return     *)
(* keeps a reference to the options, which the model leaves out.           *)

ConflictPolicies == { "suffix_number", "skip", "overwrite" }

RenameOptions(policy, cif) ==
    [conflict_policy |-> policy, case_insensitive_detect |-> cif]

\* A generator that leaves out the operations with a resolved conflict
\* when the policy is skip.
plan_replace_rename_skip_policy(disk, fl, old, new, caseSensitive, options) ==
    LET p == plan_replace_rename(disk, fl, old, new, caseSensitive,
                                 options.case_insensitive_detect)
    IN  IF options.conflict_policy = "skip"
        THEN [p EXCEPT !.ops = SelectSeq(@, LAMBDA op : op.note = <<>>)]
        ELSE p

plan_replace_rename_options(disk, fl, old, new, caseSensitive, options) ==
    plan_replace_rename(disk, fl, old, new, caseSensitive,
                        options.case_insensitive_detect)

plan_sequence_rename_options(disk, fl, sortBy, reverse, start, fmt, options) ==
    plan_sequence_rename(disk, fl, sortBy, reverse, start, fmt.padding,
                         fmt.prefix, fmt.suffixStr,
                         options.case_insensitive_detect)

\* A name of the greatest legal length, ending in .t.
LongestName == LongName(MaxNameLen - 2) \o <<".", "t">>

\* The tree: two short names and the longest one.
OptionPaths == { Path(<<"d">>, n) : n \in {Name1t, Name2t, LongestName} }

\* The batch is made of the files with short names.
OptionBatchPaths == { Path(<<"d">>, n) : n \in {Name1t, Name2t} }

\* Replacement strings: a digit, a path separator, and the letters that
\* turn 1.t into the longest name.
OptionNewStrs == { <<"2">>, <<"/">>, <<"2", "/", "2">>, LongName(MaxNameLen - 2) }

\* Number formats with a path separator in the prefix and in the suffix
\* string.
OptionFormats ==
    { [padding |-> 0, prefix |-> <<>>, suffixStr |-> <<>>],
      [padding |-> 0, prefix |-> <<"/">>, suffixStr |-> <<>>],
      [padding |-> 0, prefix |-> <<"d">>, suffixStr |-> <<"/", "2">>] }

OptionsCall(fn, policy) ==
    [fn |-> fn, old |-> <<>>, new |-> <<>>, caseSensitive |-> TRUE,
     sortBy |-> "mtime", reverse |-> FALSE, start |-> 1, padding |-> 0,
     prefix |-> <<>>, suffixStr |-> <<>>, conflict_policy |-> policy]

InitOptions ==
    /\ \E S \in SUBSET OptionPaths :
          /\ Cardinality(S) <= MaxDisk
          /\ fs = DiskOf(S)
    /\ ci \in BOOLEAN
    /\ files \in BoundedSeq({ FromPath(p, m) :
                                p \in DOMAIN fs \cap OptionBatchPaths,
                                m \in Metas },
                            MaxBatch)
    /\ call = NoCall
    /\ plan = EmptyPlan
    /\ ResolverIdle
    /\ ExecIdle

ReplaceWithOptions ==
    /\ call.fn = "none"
    /\ \E new \in OptionNewStrs, caseSensitive \in BOOLEAN,
          policy \in ConflictPolicies :
          /\ call' = [OptionsCall("replace", policy) EXCEPT
                          !.old = <<"1">>, !.new = new,
                          !.caseSensitive = caseSensitive]
          /\ plan' = plan_replace_rename_options(fs, files, <<"1">>, new,
                          caseSensitive, RenameOptions(policy, ci))
    /\ UNCHANGED <<fs, files, ci, resolverVars, execVars>>

SequenceWithOptions ==
    /\ call.fn = "none"
    /\ \E sortBy \in {"name", "mtime"}, reverse \in BOOLEAN,
          start \in 1..MaxStart, fmt \in OptionFormats,
          policy \in ConflictPolicies :
          /\ call' = [OptionsCall("sequence", policy) EXCEPT
                          !.sortBy = sortBy, !.reverse = reverse,
                          !.start = start, !.padding = fmt.padding,
                          !.prefix = fmt.prefix, !.suffixStr = fmt.suffixStr]
          /\ plan' = plan_sequence_rename_options(fs, files, sortBy, reverse,
                          start, fmt, RenameOptions(policy, ci))
    /\ UNCHANGED <<fs, files, ci, resolverVars, execVars>>

NextOptions == ReplaceWithOptions \/ SequenceWithOptions

SpecOptions == InitOptions /\ [][NextOptions]_vars

\* A directory in which the name 2.t and every candidate 2_1.t, 2_2.t, ...
\* that resolve may try for it are taken, next to the file 1.t.
CrowdedNames ==
    { Name2t } \cup
    { Candidate(<<"2">>, <<".", "t">>, n) : n \in 1..ResolveLimit }

CrowdedDisk ==
    DiskOf({ Path(<<"d">>, n) : n \in CrowdedNames \cup { Name1t } })

\* A generator is called in the crowded directory on a batch made of
\* descriptors of 1.t.
InitCrowded ==
    /\ fs = CrowdedDisk
    /\ ci \in BOOLEAN
    /\ files \in BoundedSeq({ FromPath(Path(<<"d">>, Name1t), m) :
                                m \in { [mtime |-> 1, size |-> 2, ctime |-> 1] } },
                            MaxBatch)
    /\ call = NoCall
    /\ plan = EmptyPlan
    /\ ResolverIdle
    /\ ExecIdle

SpecCrowded == InitCrowded /\ [][NextPlan]_vars

-----------------------------------------------------------------------------
(* Properties of generated plans.                                          *)

Returned == call.fn # "none" /\ ~plan.raised

ValidOps == valid_ops(plan)

BatchPaths == { files[i].path : i \in 1..Len(files) }

\* Two names of one directory that the active case policy does not tell
\* apart.
SameName(a, b) ==
    normalize_for_comparison(a, ci) = normalize_for_comparison(b, ci)

DestinationsDistinct ==
    \A i, j \in 1..Len(ValidOps) :
        (i # j /\ ValidOps[i].dst.dir = ValidOps[j].dst.dir)
            => ~SameName(ValidOps[i].dst.name, ValidOps[j].dst.name)

\* C1: in every plan a generator returns, the destinations of the valid
\* operations are pairwise distinct under the active case policy, and
\* validate_plan reports no duplicate destination for the plan.
C1_UniqueDestinations ==
    Returned =>
        /\ DestinationsDistinct
        /\ validate_plan(plan, fs, ci).duplicates = {}

\* The batch in the order the sequence generator numbers it.
SortedBatch == sort_files(files, call.sortBy, call.reverse)

\* The name the sequence generator computes for the k-th file of the
\* sorted batch.
DesiredAt(k) ==
    SequenceName(SortedBatch[k], call.start + (k - 1), call.padding,
                 call.prefix, call.suffixStr)

\* Positions k and l of the sorted batch hold two different files, each
\* wanting the other's current name.
SwapPair(k, l) ==
    /\ SortedBatch[k].path # SortedBatch[l].path
    /\ DesiredAt(k) = SortedBatch[l].name
    /\ DesiredAt(l) = SortedBatch[k].name

HasOp(src, dst, note) ==
    \E i \in 1..Len(plan.ops) : plan.ops[i] = RenameOp(src, dst, note)

\* C7: when two files of a sequence batch want each other's current names,
\* the plan holds both operations with exactly those destinations and
\* empty notes: no conflict is reported and no _1 suffix is induced.
C7_SwapWithoutConflict ==
    (Returned /\ call.fn = "sequence" /\ plan.errors = <<>>) =>
        \A k, l \in 1..Len(files) :
            SwapPair(k, l) =>
                HasOp(SortedBatch[k].path, SortedBatch[l].path, <<>>)

C7_Witness ==
    /\ Returned /\ call.fn = "sequence" /\ plan.errors = <<>>
    /\ \E k, l \in 1..Len(files) :
          /\ SwapPair(k, l)
          /\ HasOp(SortedBatch[k].path, SortedBatch[l].path, <<>>)
          /\ HasOp(SortedBatch[l].path, SortedBatch[k].path, <<>>)

\* C8: no valid operation of a generated plan targets the name of a file
\* that is on disk in the same directory and is not part of the batch.
C8_NoOutsideTarget ==
    Returned =>
        \A i \in 1..Len(ValidOps) :
            ~ \E p \in DOMAIN fs \ BatchPaths :
                /\ p.dir = ValidOps[i].dst.dir
                /\ SameName(p.name, ValidOps[i].dst.name)

\* C9: when a valid operation's destination is the current path of a batch
\* file, the plan also holds a valid operation renaming that file away.
C9_ReleasedNamesVacated ==
    Returned =>
        \A i \in 1..Len(ValidOps) :
            (ValidOps[i].dst \in BatchPaths /\ ValidOps[i].dst \in DOMAIN fs)
                => \E j \in 1..Len(ValidOps) :
                       ValidOps[j].src = ValidOps[i].dst

\* The names the called generator wants to give to the files of the batch
\* (for a replace plan, only where the substitution changes the name).
DesiredNames ==
    IF call.fn = "replace"
    THEN { replace_text(files[i].name, call.old, call.new,
                        call.caseSensitive) : i \in 1..Len(files) }
         \ { files[i].name : i \in 1..Len(files) }
    ELSE IF call.fn = "sequence"
    THEN { DesiredAt(k) : k \in 1..Len(files) }
    ELSE {}

\* The generator was called in the crowded directory and wants the name
\* 2.t for a file: resolve finds 2.t and all of 2_1.t .. 2_10000.t taken.
ExhaustedCall ==
    /\ call.fn # "none"
    /\ fs = CrowdedDisk
    /\ \E name \in DesiredNames : SameName(name, Name2t)

\* C11 as stated: when the resolver finds no free name within 10,000
\* attempts, the generator returns a plan whose errors list is non-empty.
C11_ExhaustionReported ==
    ExhaustedCall => (~plan.raised /\ plan.errors # <<>>)

\* C11 as the code behaves: when the resolver finds no free name within
\* 10,000 attempts, its RuntimeError leaves the generator; no plan is
\* returned, and no plan error is recorded.
C11_ExhaustionRaises ==
    ExhaustedCall => (plan.raised /\ plan.errors = <<>>)

C11_Witness ==
    /\ ExhaustedCall
    /\ call.fn = "sequence"
    /\ plan.raised

\* C12: plan_replace_rename with an empty old string returns a plan with
\* a non-empty errors list and no operation, whatever the file list, and
\* the plan does not depend on what the directories hold.
C12_EmptyOldFails ==
    (call.fn = "replace" /\ call.old = <<>>) =>
        /\ ~plan.raised
        /\ plan.errors # <<>>
        /\ plan.ops = <<>>
        /\ \A S \in { {}, PlanPaths } :
              plan_replace_rename(DiskOf(S), files, call.old, call.new,
                                  call.caseSensitive, ci) = plan

\* A replace call with an empty old string on a batch of two files.
C12_Witness ==
    /\ call.fn = "replace" /\ call.old = <<>>
    /\ Len(files) = 2
    /\ plan.errors # <<>>

\* The batch in the order plan_replace_rename goes through it: directory
\* by directory, each directory's files sorted by path.
RECURSIVE ReplaceOrderOf(_, _)
ReplaceOrderOf(fl, dirs) ==
    IF dirs = <<>> THEN <<>>
    ELSE sort_by_path(DirFiles(fl, Head(dirs))) \o ReplaceOrderOf(fl, Tail(dirs))

ReplaceOrder == ReplaceOrderOf(files, DirOrder(files))

\* The files the called generator computes a new name for, in processing
\* order, each with its desired name.  A replace plan leaves out the files
\* whose name the substitution does not change; a generator that fails at
\* its entry checks processes no file.
Processed ==
    IF call.fn = "replace" /\ call.old # <<>>
    THEN LET order == ReplaceOrder
         IN  SelectSeq(
                 [k \in 1..Len(files) |->
                     [f |-> order[k],
                      desired |-> replace_text(order[k].name, call.old,
                                               call.new, call.caseSensitive)]],
                 LAMBDA e : e.desired # e.f.name)
    ELSE IF call.fn = "sequence"
            /\ Cardinality({ files[i].path.dir : i \in 1..Len(files) }) = 1
    THEN LET sorted == SortedBatch
         IN  [k \in 1..Len(files) |->
                 [f |-> sorted[k],
                  desired |-> SequenceName(sorted[k], call.start + (k - 1),
                                  call.padding, call.prefix, call.suffixStr)]]
    ELSE <<>>

IllegalOnes == SelectSeq(Processed, LAMBDA e : ~is_valid_filename(e.desired))

LegalOnes == SelectSeq(Processed, LAMBDA e : is_valid_filename(e.desired))

\* The operation op renames the file of e inside its directory to e's
\* desired name, or to a conflict-resolved variant that the note records.
OperationFor(op, e) ==
    /\ op.src = e.f.path
    /\ op.dst.dir = e.f.path.dir
    /\ \/ op.note = <<>> /\ op.dst.name = e.desired
       \/ op.note = ConflictNote(e.desired, op.dst.name)
          /\ op.dst.name # e.desired

\* C13: in both generators every file whose desired name is illegal gives
\* exactly one warning and no operation, the errors stay empty, and every
\* other processed file still gets its operation, in processing order.
C13_IllegalNameSkipped ==
    (Returned /\ files # <<>>) =>
        LET illegal == IllegalOnes
            legal == LegalOnes
        IN  (illegal # <<>> \/ legal # <<>>) =>
            /\ plan.errors = <<>>
            /\ plan.warnings =
                  [i \in 1..Len(illegal) |->
                      SkipWarning(illegal[i].f,
                                  InvalidReason(illegal[i].desired))]
            /\ Len(plan.ops) = Len(legal)
            /\ \A i \in 1..Len(legal) : OperationFor(plan.ops[i], legal[i])

\* A sequence plan whose first file gets an illegal name and whose second
\* file gets a legal one.
C13_Witness ==
    /\ Returned /\ call.fn = "sequence"
    /\ Len(files) = 2
    /\ Len(plan.warnings) = 1 /\ Len(plan.ops) = 1
    /\ LET processed == Processed
       IN  /\ Len(processed) = 2
           /\ ~is_valid_filename(processed[1].desired)
           /\ is_valid_filename(processed[2].desired)

\* The path a skip warning names.
WarnedPath(w) == SubSeq(w, 2, Len(w) - 2)

\* The substitution of the replace call leaves the name of f as it is.
Unchanged(f) ==
    replace_text(f.name, call.old, call.new, call.caseSensitive) = f.name

\* The resolver of one directory when the loop of plan_replace_rename has
\* gone through the directory's files holds the seeded names and the
\* destination names of the operations the loop added, nothing else.
ClaimsOnlyDestinations(directory) ==
    LET dirFiles == sort_by_path(DirFiles(files, directory))
        st == [occ |-> SeededResolver(fs, ci, directory, dirFiles),
               plan |-> EmptyPlan]
        done == ReplaceLoop(st, ci, directory, dirFiles, 1,
                            call.old, call.new, call.caseSensitive)
    IN  done.occ[directory] =
            st.occ[directory] \cup
            { normalize_for_comparison(done.plan.ops[i].dst.name, ci) :
                i \in 1..Len(done.plan.ops) }

\* C14: plan_replace_rename gives a file whose name the substitution leaves
\* unchanged no operation and no warning, and claims no name for it in the
\* resolver.
C14_UnchangedSilent ==
    (Returned /\ call.fn = "replace" /\ call.old # <<>>) =>
        /\ \A i \in 1..Len(files) :
              Unchanged(files[i]) =>
                  /\ \A j \in 1..Len(plan.ops) :
                        plan.ops[j].src # files[i].path
                  /\ \A j \in 1..Len(plan.warnings) :
                        WarnedPath(plan.warnings[j]) # PathStr(files[i].path)
        /\ \A i \in 1..Len(files) : ClaimsOnlyDestinations(files[i].path.dir)

\* A replace plan over two files of one directory: the substitution
\* changes one name and leaves the other.
C14_Witness ==
    /\ Returned /\ call.fn = "replace" /\ call.old # <<>>
    /\ Len(files) = 2
    /\ files[1].path.dir = files[2].path.dir
    /\ Unchanged(files[1]) /\ ~Unchanged(files[2])
    /\ Len(plan.ops) = 1 /\ plan.warnings = <<>>

\* The parent directories of the batch.
BatchDirs == { files[i].path.dir : i \in 1..Len(files) }

\* C16: plan_sequence_rename on descriptors of more than one parent
\* directory returns a plan with a non-empty errors list and no operation;
\* on an empty file list it returns an empty plan without error.
C16_SequenceOneDirectory ==
    (Returned /\ call.fn = "sequence") =>
        /\ Cardinality(BatchDirs) > 1 =>
              plan.errors # <<>> /\ plan.ops = <<>>
        /\ files = <<>> => plan = EmptyPlan

\* A sequence call on two files of two directories.
C16_Witness ==
    /\ Returned /\ call.fn = "sequence"
    /\ Len(files) = 2
    /\ Cardinality(BatchDirs) = 2
    /\ plan.errors # <<>>

\* The number a string of decimal digits denotes.
RECURSIVE DigitsValue(_)
DigitsValue(s) ==
    IF s = <<>> THEN 0
    ELSE DigitsValue(SubSeq(s, 1, Len(s) - 1)) * 10
         + (CHOOSE d \in 0..9 : Digit(d) = s[Len(s)])

\* The number of digits of n written without leading zeros.
RECURSIVE NaturalLen(_)
NaturalLen(n) == IF n < 10 THEN 1 ELSE 1 + NaturalLen(n \div 10)

\* name is prefix + N + suffix literal + the extension of f, where N is
\* num in decimal, zero-padded on the left to the call's padding.
IsSequenceName(name, f, num) ==
    LET width == IF call.padding > NaturalLen(num) THEN call.padding
                 ELSE NaturalLen(num)
        from == Len(call.prefix) + 1
        numStr == SubSeq(name, from, from + width - 1)
    IN  /\ Len(name) = Len(call.prefix) + width + Len(call.suffixStr)
                       + Len(f.suffix)
        /\ name = call.prefix \o numStr \o call.suffixStr \o f.suffix
        /\ \A i \in 1..width : IsIn(numStr[i], Digits)
        /\ DigitsValue(numStr) = num

\* The desired name an operation records: its destination name, or the
\* name its conflict note says was wanted.
ObservedDesired(op) ==
    IF op.note = <<>> THEN op.dst.name
    ELSE SubSeq(op.note, 2, Len(op.note) - Len(op.dst.name) - 1)

\* C17: in a sequence plan over one directory, the file at position k of
\* the order sort_files produces gets the desired name prefix + N +
\* suffix literal + its own extension, N being start + k - 1 (k counted
\* from 1) in decimal, zero-padded to padding digits when padding > 0.
C17_SequenceNames ==
    (Returned /\ call.fn = "sequence" /\ Cardinality(BatchDirs) = 1) =>
        LET sorted == SortedBatch
        IN  /\ \A k \in 1..Len(sorted) :
                  IsSequenceName(DesiredAt(k), sorted[k], call.start + k - 1)
            /\ \A j \in 1..Len(plan.ops) :
                  \E k \in j..Len(sorted) :
                      /\ plan.warnings = <<>> => k = j
                      /\ plan.ops[j].src = sorted[k].path
                      /\ IsSequenceName(ObservedDesired(plan.ops[j]),
                                        sorted[k], call.start + k - 1)

\* Two files numbered by modification time, the younger one first in the
\* batch, with start 1, padding 2 and prefix a: a01.t and a02.t in
\* increasing mtime order.
C17_Witness ==
    /\ Returned /\ call.fn = "sequence"
    /\ call.sortBy = "mtime" /\ ~call.reverse
    /\ call.start = 1 /\ call.padding = 2 /\ call.prefix = <<"a">>
    /\ Len(files) = 2
    /\ files[1].mtime > files[2].mtime
    /\ Len(plan.ops) = 2
    /\ plan.ops[1].src = files[2].path
    /\ plan.ops[1].dst.name = <<"a", "0", "1">> \o files[2].suffix
    /\ plan.ops[2].src = files[1].path
    /\ plan.ops[2].dst.name = <<"a", "0", "2">> \o files[1].suffix

\* The orders in which a scanner may supply the descriptors of the batch.
Reorderings ==
    { [i \in 1..Len(files) |-> files[g[i]]] :
        g \in { h \in [1..Len(files) -> 1..Len(files)] :
                  \A i, j \in 1..Len(files) : h[i] = h[j] => i = j } }

\* The replace plan for the batch supplied in the order fl.
ReplacePlanOf(fl) ==
    plan_replace_rename(fs, fl, call.old, call.new, call.caseSensitive, ci)

\* The operations of a plan, without their order.
OpSet(p) == { p.ops[i] : i \in 1..Len(p.ops) }

\* C18: for the same directory contents and the same descriptors,
\* plan_replace_rename gives every source the same final destination,
\* whatever the order in which the descriptors are supplied.  (The claim
\* adds that the operations come in the same order.)
C18_SameDestinations ==
    (Returned /\ call.fn = "replace") =>
        \A fl \in Reorderings : OpSet(ReplacePlanOf(fl)) = OpSet(plan)

\* The batch holds one descriptor per path.
DistinctPaths ==
    \A i, j \in 1..Len(files) : files[i].path = files[j].path => i = j

\* C28: for every criterion and both values of reverse, sort_files returns
\* the same sequence for every order in which the same descriptors, one
\* per path, are supplied: descriptors that tie on the criterion are
\* ordered by case-folded name.
C28_SortIgnoresInputOrder ==
    (call.fn = "sequence" /\ DistinctPaths) =>
        \A fl \in Reorderings :
            sort_files(fl, call.sortBy, call.reverse)
                = sort_files(files, call.sortBy, call.reverse)

\* C35: for a batch of descriptors with pairwise-distinct paths, the
\* sources of the operations of a generated plan are pairwise distinct and
\* each is the path of a batch file; and a sequence plan without plan
\* error holds one operation or one warning for each batch file.
C35_OneOperationPerFile ==
    (Returned /\ DistinctPaths) =>
        /\ \A i, j \in 1..Len(plan.ops) :
              plan.ops[i].src = plan.ops[j].src => i = j
        /\ \A i \in 1..Len(plan.ops) : plan.ops[i].src \in BatchPaths
        /\ (call.fn = "sequence" /\ plan.errors = <<>>) =>
              Len(plan.ops) + Len(plan.warnings) = Len(files)

\* A sequence plan for two files: one has an operation, the other, whose
\* numbered name is illegal, a warning.
C35_Witness ==
    /\ Returned /\ DistinctPaths /\ call.fn = "sequence"
    /\ plan.errors = <<>>
    /\ Len(files) = 2 /\ Len(plan.ops) = 1 /\ Len(plan.warnings) = 1
    /\ plan.ops[1].src \in BatchPaths

\* C36: every operation of a generated plan keeps the file in its
\* directory: the destination has the parent directory of the source and
\* its name holds no path separator, whatever the replacement string, the
\* prefix and the suffix string.
C36_StaysInDirectory ==
    Returned =>
        \A i \in 1..Len(plan.ops) :
            /\ plan.ops[i].dst.dir = plan.ops[i].src.dir
            /\ \A c \in 1..Len(plan.ops[i].dst.name) :
                  plan.ops[i].dst.name[c] \notin {"/", "\\"}

\* A replacement by the longest string and a conflict have produced an
\* operation whose destination, suffixed by the resolver, lies in the
\* directory of its source.
C36_Witness ==
    /\ Returned /\ call.fn = "replace" /\ Len(call.new) > 1
    /\ Len(plan.ops) = 1
    /\ plan.ops[1].note # <<>>
    /\ plan.ops[1].dst.dir = plan.ops[1].src.dir
    /\ plan.ops[1].dst.name # plan.ops[1].src.name

\* The plan the generator of the recorded call returns for the same
\* inputs and tree under the given conflict policy.
PlanUnder(policy) ==
    IF call.fn = "replace"
    THEN plan_replace_rename_options(fs, files, call.old, call.new,
             call.caseSensitive, RenameOptions(policy, ci))
    ELSE plan_sequence_rename_options(fs, files, call.sortBy, call.reverse,
             call.start,
             [padding |-> call.padding, prefix |-> call.prefix,
              suffixStr |-> call.suffixStr],
             RenameOptions(policy, ci))

\* The name the recorded call computes for the batch file f.
DesiredFor(f) ==
    IF call.fn = "replace"
    THEN replace_text(f.name, call.old, call.new, call.caseSensitive)
    ELSE DesiredAt(CHOOSE k \in 1..Len(files) : SortedBatch[k] = f)

\* The name is that of a file of the directory that the batch does not
\* release.
TakenOutsideBatch(directory, name) ==
    \E q \in DOMAIN fs :
        /\ q.dir = directory
        /\ SameName(q.name, name)
        /\ \A i \in 1..Len(files) : ~SameName(files[i].name, q.name)

\* The operation gives the file the desired name with a numeric suffix.
Suffixed(op, desired) ==
    /\ op.note # <<>>
    /\ ~SameName(op.dst.name, desired)
    /\ \E n \in 1..(Cardinality(DOMAIN fs) + Len(files)) :
          op.dst.name = Candidate(PathStem(desired), PathSuffix(desired), n)

C38_DestinationsLegal ==
    Returned =>
        \A i \in 1..Len(plan.ops) : is_valid_filename(plan.ops[i].dst.name)

-----------------------------------------------------------------------------
(* The conflict resolver as a state machine: one resolver, called through  *)
(* its three mutating methods.                                             *)

Namea1t == <<"a", "_", "1", ".", "t">>
NameDota == <<".", "a">>

\* The names handed to the resolver.
ResolverNames == {Nameat, NameAt, Namea1t, NameDota}

InitResolver ==
    /\ ci \in BOOLEAN
    /\ occupied = NewResolver
    /\ last = NoLast
    /\ fs = DiskOf({})
    /\ files = <<>>
    /\ call = NoCall
    /\ plan = EmptyPlan
    /\ ExecIdle

Called(op, directory, desired, r) ==
    [op |-> op, dir |-> directory, desired |-> desired, name |-> r.name,
     conflict |-> r.conflict, raised |-> r.raised, before |-> occupied,
     calls |-> last.calls + 1, checks |-> r.checks]

NoResult == [name |-> <<>>, conflict |-> FALSE, raised |-> FALSE, checks |-> 0]

AddExisting ==
    /\ last.calls < MaxCalls
    /\ \E directory \in Dirs, names \in SUBSET ResolverNames :
          /\ occupied' = add_existing(occupied, ci, directory, names)
          /\ last' = Called("add_existing", directory, <<>>, NoResult)
    /\ UNCHANGED <<fs, planVars, execVars>>

RemoveParticipating ==
    /\ last.calls < MaxCalls
    /\ \E directory \in Dirs, names \in SUBSET ResolverNames :
          /\ occupied' = remove_participating(occupied, ci, directory, names)
          /\ last' = Called("remove_participating", directory, <<>>, NoResult)
    /\ UNCHANGED <<fs, planVars, execVars>>

Resolve ==
    /\ last.calls < MaxCalls
    /\ \E directory \in Dirs, desired \in ResolverNames :
          LET r == resolve(occupied, ci, directory, desired)
          IN  /\ occupied' = r.occ
              /\ last' = Called("resolve", directory, desired, r)
    /\ UNCHANGED <<fs, planVars, execVars>>

NextResolver == AddExisting \/ RemoveParticipating \/ Resolve

SpecResolver == InitResolver /\ [][NextResolver]_vars

\* A resolver that holds 2.t and every candidate 2_1.t .. 2_10000.t of
\* directory d, as add_existing leaves it in the crowded directory.
InitResolverCrowded ==
    /\ ci \in BOOLEAN
    /\ occupied = add_existing(NewResolver, ci, <<"d">>, CrowdedNames)
    /\ last = NoLast
    /\ fs = DiskOf({})
    /\ files = <<>>
    /\ call = NoCall
    /\ plan = EmptyPlan
    /\ ExecIdle

\* The names released from the crowded resolver: the desired name, the
\* first candidate and the last two.
ReleasedNames ==
    { Name2t, Candidate(<<"2">>, <<".", "t">>, 1),
      Candidate(<<"2">>, <<".", "t">>, ResolveLimit - 1),
      Candidate(<<"2">>, <<".", "t">>, ResolveLimit) }

ReleaseCrowded ==
    /\ last.calls < MaxCalls
    /\ \E name \in ReleasedNames :
          /\ occupied' = remove_participating(occupied, ci, <<"d">>, {name})
          /\ last' = Called("remove_participating", <<"d">>, name, NoResult)
    /\ UNCHANGED <<fs, planVars, execVars>>

ResolveCrowded ==
    /\ last.calls < MaxCalls
    /\ LET r == resolve(occupied, ci, <<"d">>, Name2t)
       IN  /\ occupied' = r.occ
           /\ last' = Called("resolve", <<"d">>, Name2t, r)
    /\ UNCHANGED <<fs, planVars, execVars>>

NextResolverCrowded == ReleaseCrowded \/ ResolveCrowded

SpecResolverCrowded == InitResolverCrowded /\ [][NextResolverCrowded]_vars

\* Before the last call the desired name and all 10,000 candidates
\* stem_1 .. stem_10000 (plus extension) were occupied.
AllTaken ==
    /\ is_occupied(last.before, ci, last.dir, last.desired)
    /\ \A n \in 1..10000 :
          is_occupied(last.before, ci, last.dir,
                      Candidate(PathStem(last.desired),
                                PathSuffix(last.desired), n))

\* C27: resolve raises, and claims no name, exactly when the desired name
\* and all 10,000 candidates are occupied; otherwise it returns a name,
\* which it claims, and does not raise.  No call tests more than 10,000
\* candidates.
C27_RaisesWhenExhausted ==
    last.op = "resolve" =>
        /\ last.raised <=> AllTaken
        /\ last.raised => occupied = last.before
        /\ ~last.raised =>
              /\ ~is_occupied(last.before, ci, last.dir, last.name)
              /\ is_occupied(occupied, ci, last.dir, last.name)
              /\ last.name = last.desired
                 \/ \E n \in 1..10000 :
                       last.name = Candidate(PathStem(last.desired),
                                             PathSuffix(last.desired), n)
        /\ last.checks <= 10000

\* A call that raised right after a call that was given the last
\* candidate, the only free one.
C27_Witness ==
    /\ last.op = "resolve" /\ last.raised /\ last.checks = 10000
    /\ last.calls = 3
    /\ is_occupied(last.before, ci, last.dir,
                   Candidate(<<"2">>, <<".", "t">>, ResolveLimit))

\* The suffixed candidates of the last call that were occupied before it:
\* n is the first one that was free.
FirstFree(n) ==
    LET stem == PathStem(last.desired)
        suffix == PathSuffix(last.desired)
    IN  /\ ~is_occupied(last.before, ci, last.dir, Candidate(stem, suffix, n))
        /\ \A m \in 1..(n - 1) :
              is_occupied(last.before, ci, last.dir, Candidate(stem, suffix, m))

\* C10: resolve returns the desired name unchanged and reports no conflict
\* when it was free; otherwise it returns stem_n + extension for the
\* smallest n >= 1 whose candidate was free and reports a conflict.  The
\* returned name was free before the call and is occupied after it, just
\* one name was added to the directory's set, and no other directory's set
\* changed.
C10_ResolveContract ==
    (last.op = "resolve" /\ ~last.raised) =>
        LET wasFree == ~is_occupied(last.before, ci, last.dir, last.desired)
            added == normalize_for_comparison(last.name, ci)
        IN  /\ wasFree => (last.name = last.desired /\ ~last.conflict)
            /\ ~wasFree =>
                  /\ last.conflict
                  /\ \E n \in 1..(Cardinality(last.before[last.dir]) + 1) :
                        /\ last.name = Candidate(PathStem(last.desired),
                                                 PathSuffix(last.desired), n)
                        /\ FirstFree(n)
            /\ ~is_occupied(last.before, ci, last.dir, last.name)
            /\ is_occupied(occupied, ci, last.dir, last.name)
            /\ occupied[last.dir] = last.before[last.dir] \cup {added}
            /\ Cardinality(occupied[last.dir]) =
                  Cardinality(last.before[last.dir]) + 1
            /\ \A d \in Dirs \ {last.dir} : occupied[d] = last.before[d]

\* A call that had to skip an occupied first candidate.
C10_Witness ==
    /\ last.op = "resolve" /\ ~last.raised /\ last.conflict
    /\ is_occupied(last.before, ci, last.dir,
                   Candidate(PathStem(last.desired), PathSuffix(last.desired), 1))
    /\ FirstFree(2)
    /\ last.name = Candidate(PathStem(last.desired), PathSuffix(last.desired), 2)

-----------------------------------------------------------------------------
(* exec_rename.py                                                          *)

\* ".__tmp_rename__"
TempMarker ==
    <<".", "_", "_", "t", "m", "p", "_", "r", "e", "n", "a", "m", "e", "_", "_">>

\* uuid4().hex[:8]: the length of the random token of a temp name.
TokenLen == 8

\* The random tokens of the model.
Tokens == { [i \in 1..TokenLen |-> "0"], [i \in 1..TokenLen |-> "f"] }

\* A temp name that leaves out the original name.
generate_temp_name_fixed(original, token) ==
    Path(original.dir, TempMarker \o token)

\* A temp name that keeps only the extension of the original name.
generate_temp_name_suffix(original, token) ==
    Path(original.dir,
         TempMarker \o token \o <<"_", "_">> \o PathSuffix(original.name))

\* f".__tmp_rename__{unique_id}__{original.name}" in original's directory.
generate_temp_name(original, token) ==
    Path(original.dir, TempMarker \o token \o <<"_", "_">> \o original.name)

\* name.startswith(".__tmp_rename__")
is_temp_name(name) ==
    /\ Len(name) >= Len(TempMarker)
    /\ SubSeq(name, 1, Len(TempMarker)) = TempMarker

\* A rename that loses the file when the operating system refuses it.
os_rename_lossy(disk, src, dst, isPosix, inject) ==
    IF src \notin DOMAIN disk
    THEN [ok |-> FALSE, fs |-> disk, replaced |-> FALSE,
          error |-> "FileNotFoundError"]
    ELSE IF inject
    THEN [ok |-> FALSE, fs |-> [p \in DOMAIN disk \ {src} |-> disk[p]],
          replaced |-> FALSE, error |-> "PermissionError"]
    ELSE IF src = dst
    THEN [ok |-> TRUE, fs |-> disk, replaced |-> FALSE, error |-> ""]
    ELSE IF dst \in DOMAIN disk /\ ~isPosix
    THEN [ok |-> FALSE, fs |-> disk, replaced |-> FALSE,
          error |-> "FileExistsError"]
    ELSE [ok |-> TRUE,
          fs |-> [p \in (DOMAIN disk \ {src}) \cup {dst} |->
                     IF p = dst THEN disk[src] ELSE disk[p]],
          replaced |-> dst \in DOMAIN disk, error |-> ""]

\* os.rename(src, dst) on the filesystem disk.  inject says that the
\* operating system refuses this call (permission, lock, I/O error).  When
\* dst exists, a POSIX system replaces it and Windows raises
\* FileExistsError.  An OSError leaves the filesystem unchanged; error is
\* its message.
os_rename(disk, src, dst, isPosix, inject) ==
    IF src \notin DOMAIN disk
    THEN [ok |-> FALSE, fs |-> disk, replaced |-> FALSE,
          error |-> "FileNotFoundError"]
    ELSE IF inject
    THEN [ok |-> FALSE, fs |-> disk, replaced |-> FALSE,
          error |-> "PermissionError"]
    ELSE IF src = dst
    THEN [ok |-> TRUE, fs |-> disk, replaced |-> FALSE, error |-> ""]
    ELSE IF dst \in DOMAIN disk /\ ~isPosix
    THEN [ok |-> FALSE, fs |-> disk, replaced |-> FALSE,
          error |-> "FileExistsError"]
    ELSE [ok |-> TRUE,
          fs |-> [p \in (DOMAIN disk \ {src}) \cup {dst} |->
                     IF p = dst THEN disk[src] ELSE disk[p]],
          replaced |-> dst \in DOMAIN disk, error |-> ""]

\* One entry of what execute_rename did.
Event(kind, step, i, src, dst, ok, replaced, inject, cur, total, error, data) ==
    [kind |-> kind, step |-> step, i |-> i, src |-> src, dst |-> dst,
     ok |-> ok, replaced |-> replaced, inject |-> inject,
     cur |-> cur, total |-> total, error |-> error, data |-> data]

\* What an event other than a written log file carries as data.
NoData == [operations |-> <<>>, warnings |-> <<>>, errors |-> <<>>,
           success |-> <<>>, failed |-> <<>>, skipped |-> <<>>]

NoPath == Path(<<>>, <<>>)

RenameEvent(step, i, src, dst, r, inject) ==
    Event("rename", step, i, src, dst, r.ok, r.replaced, inject, 0, 0, r.error,
          NoData)

\* A callback that reports the operation's position as the current step.
ProgressEventByPosition(step, i, cur, total) ==
    Event("progress", step, i, NoPath, NoPath, TRUE, FALSE, FALSE, i, total,
          "", NoData)

\* progress_callback(current, total, message)
ProgressEvent(step, i, cur, total) ==
    Event("progress", step, i, NoPath, NoPath, TRUE, FALSE, FALSE, cur, total,
          "", NoData)

\* A log file was written into log_dir, or could not be written.
LogEvent(kind, ok, data) ==
    Event(kind, "log", 0, NoPath, NoPath, ok, FALSE, ~ok, 0, 0,
          IF ok THEN "" ELSE "OSError", IF ok THEN data ELSE NoData)

\* save_plan_log: the data of the plan log.
save_plan_log(p) ==
    [NoData EXCEPT
        !.operations = [k \in 1..Len(valid_ops(p)) |->
                          [src |-> valid_ops(p)[k].src,
                           dst |-> valid_ops(p)[k].dst,
                           note |-> valid_ops(p)[k].note]],
        !.warnings = p.warnings,
        !.errors = p.errors]

\* A result log that leaves out the failures.
save_result_log_successes(res) ==
    [NoData EXCEPT
        !.success = [k \in 1..Len(res.success) |->
                       [src |-> res.success[k].op.src,
                        dst |-> res.success[k].op.dst]]]

\* save_result_log: the data of the result log.
save_result_log(res) ==
    [NoData EXCEPT
        !.success = [k \in 1..Len(res.success) |->
                       [src |-> res.success[k].op.src,
                        dst |-> res.success[k].op.dst]],
        !.failed = [k \in 1..Len(res.failed) |->
                      [src |-> res.failed[k].op.src,
                       dst |-> res.failed[k].op.dst,
                       error |-> res.failed[k].error]],
        !.skipped = [k \in 1..Len(res.skipped) |->
                       [src |-> res.skipped[k].op.src,
                        dst |-> res.skipped[k].op.dst]]]

\* result.success.append(op); i is the operation's position in valid_ops.
AppendSuccess(res, i, op) ==
    [res EXCEPT !.success = Append(@, [i |-> i, op |-> op])]

\* A failure that is not recorded.
AppendFailedDropped(res, i, op, error) == res

\* A failure that is recorded twice.
AppendFailedTwice(res, i, op, error) ==
    [res EXCEPT !.failed = @ \o << [i |-> i, op |-> op, error |-> error],
                                   [i |-> i, op |-> op, error |-> error] >>]

\* result.failed.append((op, error)).  An error text is the sequence of
\* its fixed wording and the messages of the OSErrors formatted into it.
AppendFailed(res, i, op, error) ==
    [res EXCEPT !.failed = Append(@, [i |-> i, op |-> op, error |-> error])]

\* The plan log written whenever a log directory is given.
ShouldSavePlanLogAlways(hasLogDir, isDryRun) == hasLogDir

\* "if log_dir and not dry_run" before save_plan_log
ShouldSavePlanLog(hasLogDir, isDryRun) == hasLogDir /\ ~isDryRun

\* The dry-run branch: every valid operation reported as succeeded.
RECURSIVE PreviewAll(_, _, _)
PreviewAll(res, ops, i) ==
    IF i > Len(ops) THEN res
    ELSE PreviewAll(AppendSuccess(res, i, ops[i]), ops, i + 1)

PreviewEvents(ops) ==
    [i \in 1..Len(ops) |-> ProgressEvent("preview", i, i, Len(ops))]

\* execute_rename from its entry to the first phase-1 step: the empty
\* plan returns at once, the plan log is written, a dry run is completed.
ExecBegin ==
    /\ pc = "idle"
    /\ \E isDryRun \in BOOLEAN, hasLogDir \in BOOLEAN, isPosix \in BOOLEAN,
          logOk \in BOOLEAN :
          LET ops == valid_ops(plan)
              total == Len(ops)
              writes == total # 0 /\ ShouldSavePlanLog(hasLogDir, isDryRun)
              written == IF writes
                         THEN <<LogEvent("plan_log", TRUE, save_plan_log(plan))>>
                         ELSE <<>>
          IN  /\ (~writes => logOk)
              /\ dryRun' = isDryRun /\ logDir' = hasLogDir /\ posix' = isPosix
              /\ fs0' = fs
              /\ tempMap' = <<>>
              /\ idx' = 1
              /\ IF total = 0
                 THEN pc' = "done" /\ result' = EmptyResult /\ log' = <<>>
                 ELSE IF writes /\ ~logOk
                 THEN /\ pc' = "raised" /\ result' = EmptyResult
                      /\ log' = <<LogEvent("plan_log", FALSE, NoData)>>
                 ELSE IF isDryRun
                 THEN /\ pc' = "done"
                      /\ result' = PreviewAll(EmptyResult, ops, 1)
                      /\ log' = written \o PreviewEvents(ops)
                 ELSE /\ pc' = "phase1" /\ result' = EmptyResult
                      /\ log' = written
    /\ UNCHANGED <<fs, planVars, resolverVars, cleanupVars>>

\* A phase-1 loop that is left after its first iteration.
Phase1NextEarly(i, total) == [idx |-> 1, pc |-> "phase2"]

\* Where execute_rename continues after iteration i of the phase-1 loop:
\* with the next operation, or with the phase-2 loop after the last one.
Phase1Next(i, total) ==
    IF i < total THEN [idx |-> i + 1, pc |-> "phase1"]
    ELSE [idx |-> 1, pc |-> "phase2"]

\* One iteration of the phase-1 loop: source -> temp name.
Phase1Step ==
    /\ pc = "phase1"
    /\ LET ops == valid_ops(plan)
           total == Len(ops)
           op == ops[idx]
           progress == ProgressEvent("phase1", idx, idx, total * 2)
       IN  /\ IF op.src \notin DOMAIN fs
              THEN /\ result' = AppendFailed(result, idx, op,
                                             <<"Source file does not exist">>)
                   /\ log' = Append(log, progress)
                   /\ UNCHANGED <<fs, tempMap>>
              ELSE \E token \in Tokens, inject \in BOOLEAN :
                      LET temp == generate_temp_name(op.src, token)
                          r == os_rename(fs, op.src, temp, posix, inject)
                      IN  /\ fs' = r.fs
                          /\ log' = log \o <<progress,
                                 RenameEvent("phase1", idx, op.src, temp, r, inject)>>
                          /\ IF r.ok
                             THEN /\ tempMap' = Append(tempMap,
                                        [i |-> idx, op |-> op, temp |-> temp])
                                  /\ UNCHANGED result
                             ELSE /\ result' = AppendFailed(result, idx, op,
                                                 <<"Phase 1 failed", r.error>>)
                                  /\ UNCHANGED tempMap
           /\ idx' = Phase1Next(idx, total).idx
           /\ pc' = Phase1Next(idx, total).pc
    /\ UNCHANGED <<planVars, resolverVars, cleanupVars, dryRun, logDir, posix,
                   fs0>>

\* A failure record that always reports the restore as done.
Phase2ErrorRestored(r, r2) == <<"Phase 2 failed (restored)", r.error>>

\* The error text of a phase-2 failure: r is the refused rename to the
\* destination, r2 the restore that followed.
Phase2Error(r, r2) ==
    IF r2.ok THEN <<"Phase 2 failed (restored)", r.error>>
    ELSE <<"Phase 2 failed (restore also failed)", r.error, r2.error>>

\* One iteration of the phase-2 loop: temp name -> destination, and on
\* failure the restore temp name -> source.
Phase2Step ==
    /\ pc = "phase2"
    /\ idx <= Len(tempMap)
    /\ LET total == Len(valid_ops(plan))
           m == tempMap[idx]
           progress == ProgressEvent("phase2", m.i, total + idx, total * 2)
       IN  \E inject \in BOOLEAN :
              LET r == os_rename(fs, m.temp, m.op.dst, posix, inject)
                  first == RenameEvent("phase2", m.i, m.temp, m.op.dst, r, inject)
              IN  IF r.ok
                  THEN /\ fs' = r.fs
                       /\ result' = AppendSuccess(result, m.i, m.op)
                       /\ log' = log \o <<progress, first>>
                  ELSE \E inject2 \in BOOLEAN :
                          LET r2 == os_rename(fs, m.temp, m.op.src, posix, inject2)
                          IN  /\ fs' = r2.fs
                              /\ result' = AppendFailed(result, m.i, m.op,
                                                         Phase2Error(r, r2))
                              /\ log' = log \o <<progress, first,
                                    RenameEvent("restore", m.i, m.temp, m.op.src,
                                                r2, inject2)>>
    /\ idx' = idx + 1
    /\ UNCHANGED <<planVars, resolverVars, cleanupVars, pc, dryRun, logDir,
                   posix, tempMap, fs0>>

\* A phase-2 loop that may be left before temp_mapping is exhausted.
Phase2FinishedEarly(i, n) == TRUE

\* The phase-2 loop has gone through the n entries of temp_mapping.
Phase2Finished(i, n) == i > n

\* After the phase-2 loop: the result log is written and the result
\* returned.
ExecFinish ==
    /\ pc = "phase2"
    /\ Phase2Finished(idx, Len(tempMap))
    /\ \E logOk \in BOOLEAN :
          /\ (~logDir => logOk)
          /\ log' = IF logDir
                    THEN Append(log, LogEvent("result_log", logOk,
                                              save_result_log(result)))
                    ELSE log
          /\ pc' = IF logOk THEN "done" ELSE "raised"
    /\ UNCHANGED <<fs, planVars, resolverVars, cleanupVars, dryRun, logDir,
                   posix, idx,
                   tempMap, result, fs0>>

\* The paths of the plans handed to execute_rename.
ExecPaths == { Path(<<"d">>, n) : n \in {Name1t, Name2t, Nameat} }

ExecOps == { RenameOp(src, dst, <<>>) : src \in ExecPaths, dst \in ExecPaths }

InitExec ==
    /\ fs \in { DiskOf(S) : S \in SUBSET ExecPaths }
    /\ plan \in { [EmptyPlan EXCEPT !.ops = ops] :
                     ops \in BoundedSeq(ExecOps, MaxOps) }
    /\ files = <<>>
    /\ ci = FALSE
    /\ call = NoCall
    /\ ResolverIdle
    /\ ExecIdle

NextExec == ExecBegin \/ Phase1Step \/ Phase2Step \/ ExecFinish

SpecExec == InitExec /\ [][NextExec]_vars

\* execute_rename handed a plan that carries a plan-level error next to
\* its operations (a RenamePlan built by a caller, as RenamePlan allows).
InitExecErrors ==
    /\ fs \in { DiskOf(S) : S \in SUBSET ExecPaths }
    /\ plan \in { [EmptyPlan EXCEPT !.ops = ops,
                                    !.errors = <<"plan-level error">>] :
                     ops \in BoundedSeq(ExecOps, MaxOps) }
    /\ files = <<>>
    /\ ci = FALSE
    /\ call = NoCall
    /\ ResolverIdle
    /\ ExecIdle

SpecExecErrors == InitExecErrors /\ [][NextExec]_vars

\* A generated plan handed to execute_rename: plan_replace_rename is called
\* under the case-insensitive policy with strings that change letter case,
\* and the plan it returns is executed on the same tree.
CasePaths == { Path(<<"d">>, n) : n \in {Nameat, NameAt, Name1t} }

CaseOld == { <<"a">>, <<"t">> }
CaseNew == { <<"A">>, <<"T">> }

InitCase ==
    /\ \E S \in SUBSET CasePaths :
          /\ Cardinality(S) <= MaxDisk
          /\ fs = DiskOf(S)
    /\ ci = TRUE
    /\ files \in BoundedSeq({ FromPath(p, [mtime |-> 1, size |-> 2,
                                           ctime |-> 1]) : p \in DOMAIN fs },
                            MaxBatch)
    /\ call = NoCall
    /\ plan = EmptyPlan
    /\ ResolverIdle
    /\ ExecIdle

PlanCase ==
    /\ call.fn = "none"
    /\ \E old \in CaseOld, new \in CaseNew, caseSensitive \in BOOLEAN :
          /\ call' = [NoCall EXCEPT !.fn = "replace", !.old = old,
                          !.new = new, !.caseSensitive = caseSensitive]
          /\ plan' = plan_replace_rename(fs, files, old, new, caseSensitive, ci)
    /\ UNCHANGED <<fs, files, ci, resolverVars, execVars>>

ExecuteCase == call.fn # "none" /\ ~plan.raised /\ NextExec

NextCase == PlanCase \/ ExecuteCase

SpecCase == InitCase /\ [][NextCase]_vars

-----------------------------------------------------------------------------
(* cleanup_temp_files                                                      *)

\* The kinds of directory entry: a regular file, a subdirectory, and a
\* symbolic link whose target is missing.
Kinds == {"file", "dir", "link"}

\* Path.exists() follows symbolic links, so it is False for a link whose
\* target is missing.  A path with an empty name is the directory itself.
exists(disk, p) ==
    \/ p.name = <<>>
    \/ p \in DOMAIN disk /\ disk[p].kind # "link"

\* Path.is_file()
is_file(disk, p) == p \in DOMAIN disk /\ disk[p].kind = "file"

\* s[start..].split("__", maxsplit), scanning from position i.
RECURSIVE SplitFrom(_, _, _, _)
SplitFrom(s, i, start, maxsplit) ==
    IF maxsplit = 0 \/ i >= Len(s)
    THEN << SubSeq(s, start, Len(s)) >>
    ELSE IF s[i] = "_" /\ s[i + 1] = "_"
    THEN << SubSeq(s, start, i - 1) >> \o SplitFrom(s, i + 2, i + 2, maxsplit - 1)
    ELSE SplitFrom(s, i + 1, start, maxsplit)

\* A split that ignores maxsplit and cuts at every "__".
split_everywhere(name, maxsplit) == SplitFrom(name, 1, 1, Len(name))

\* name.split("__", maxsplit)
split(name, maxsplit) == SplitFrom(name, 1, 1, maxsplit)

\* directory.iterdir(): the entries of the directory, in any order.
iterdir(disk) ==
    LET n == Cardinality(DOMAIN disk)
    IN  { s \in [1..n -> DOMAIN disk] :
            \A i, j \in 1..n : i # j => s[i] # s[j] }

\* cleanup_temp_files up to its loop: count = 0 and the directory listed.
CleanupBegin ==
    /\ at = 0
    /\ \E listing \in iterdir(fs), isPosix \in BOOLEAN :
          /\ items' = listing
          /\ posix' = isPosix
    /\ at' = 1
    /\ count' = 0
    /\ fs0' = fs
    /\ log' = <<>>
    /\ UNCHANGED <<fs, planVars, resolverVars, pc, dryRun, logDir, idx,
                   tempMap, result>>

\* One iteration of the loop of cleanup_temp_files.
CleanupStep ==
    /\ at \in 1..Len(items)
    /\ LET item == items[at]
           parts == split(item.name, 3)
           original_path == Path(item.dir, parts[4])
       IN  IF /\ is_file(fs, item) /\ is_temp_name(item.name)
              /\ Len(parts) >= 4
              /\ ~exists(fs, original_path)
           THEN \E inject \in BOOLEAN :
                   LET r == os_rename(fs, item, original_path, posix, inject)
                   IN  /\ fs' = r.fs
                       /\ count' = IF r.ok THEN count + 1 ELSE count
                       /\ log' = Append(log, RenameEvent("cleanup", at, item,
                                                         original_path, r, inject))
           ELSE UNCHANGED <<fs, count, log>>
    /\ at' = at + 1
    /\ UNCHANGED <<planVars, resolverVars, pc, dryRun, logDir, posix, idx,
                   tempMap, result, fs0, items>>

MaxEntries == 3   \* entries of the directory handed to cleanup_temp_files

Name2u == <<"2", "_", "_", "t">>

Token0 == [i \in 1..TokenLen |-> "0"]
Tokenf == [i \in 1..TokenLen |-> "f"]

\* The names of the directory: 1.t, two temp names that encode 1.t, a temp
\* name that encodes 2__t, one that encodes the empty name, and a name that
\* starts with the marker and has no token.
CleanupNames ==
    { Name1t,
      generate_temp_name(Path(<<"d">>, Name1t), Token0).name,
      generate_temp_name(Path(<<"d">>, Name1t), Tokenf).name,
      generate_temp_name(Path(<<"d">>, Name2u), Token0).name,
      generate_temp_name(Path(<<"d">>, <<>>), Token0).name,
      TempMarker \o <<"x">> }

InitCleanup ==
    /\ \E S \in SUBSET { Path(<<"d">>, n) : n \in CleanupNames } :
          /\ Cardinality(S) <= MaxEntries
          /\ fs \in { [p \in S |-> [kind |-> k[p], id |-> p]] : k \in [S -> Kinds] }
    /\ files = <<>>
    /\ ci = FALSE
    /\ call = NoCall
    /\ plan = EmptyPlan
    /\ ResolverIdle
    /\ ExecIdle

NextCleanup == CleanupBegin \/ CleanupStep

SpecCleanup == InitCleanup /\ [][NextCleanup]_vars

MaxInterrupted == 2   \* files of a directory whose run was interrupted

\* File names with underscores in every position, and a name that starts
\* with the marker of temp names.
UnderscoreNames ==
    { Name1t, Name2u, <<"_", "a">>, <<"_", "_", "a">>, <<"a", "_", "_">>,
      <<"_", "_">>, <<"_", "_", "_", "a", "_", "_", "b">>,
      TempMarker \o <<"x">> }

\* A directory of regular files, each under its own name.
InitRecovery ==
    /\ \E S \in SUBSET { Path(<<"d">>, n) : n \in UnderscoreNames } :
          /\ Cardinality(S) <= MaxInterrupted
          /\ fs = [p \in S |-> [kind |-> "file", id |-> p]]
    /\ files = <<>>
    /\ ci = FALSE
    /\ call = NoCall
    /\ plan = EmptyPlan
    /\ ResolverIdle
    /\ ExecIdle

\* Phase 1 of a run of execute_rename that never reached phase 2 for this
\* file: the file is renamed to the temp name generated for it and the
\* process ends.
Phase1Interrupted ==
    /\ at = 0
    /\ \E p \in DOMAIN fs, token \in Tokens :
          /\ fs[p].id = p
          /\ fs' = os_rename(fs, p, generate_temp_name(p, token), posix,
                             FALSE).fs
    /\ UNCHANGED <<planVars, resolverVars, execVars>>

NextRecovery == Phase1Interrupted \/ CleanupBegin \/ CleanupStep

SpecRecovery == InitRecovery /\ [][NextRecovery]_vars

-----------------------------------------------------------------------------
(* safety_checks.py.  Directory entries carry their kind and whether the   *)
(* process may write them (os.access(path, os.W_OK)); the directories      *)
(* themselves are not entries of the modelled tree: they exist and are     *)
(* writable.                                                               *)

PathLengthLimit == 260

Passed == [ok |-> TRUE, error |-> ""]

Refused(reason) == [ok |-> FALSE, error |-> reason]

\* os.access(path, os.W_OK)
access(disk, p) == p \in DOMAIN disk => disk[p].writable

check_writable(disk, p) ==
    IF exists(disk, p)
    THEN IF ~access(disk, p) THEN Refused("File is not writable")
         ELSE Passed
    ELSE IF ~exists(disk, Path(p.dir, <<>>))
         THEN Refused("Parent directory does not exist")
    ELSE IF ~access(disk, Path(p.dir, <<>>))
         THEN Refused("Directory is not writable")
    ELSE Passed

check_path_length(p, max_length) ==
    IF Len(PathStr(p)) > max_length
    THEN Refused("Path length exceeds limit")
    ELSE Passed

\* check_rename_op with the length check made on every platform.
check_rename_op_anywhere(disk, src, dst, windows) ==
    IF ~exists(disk, src) THEN Refused("Source file does not exist")
    ELSE IF ~is_file(disk, src) THEN Refused("Source path is not a file")
    ELSE IF ~is_valid_filename(dst.name) THEN Refused(InvalidReason(dst.name))
    ELSE IF ~check_path_length(dst, PathLengthLimit).ok
         THEN check_path_length(dst, PathLengthLimit)
    ELSE check_writable(disk, src)

check_rename_op(disk, src, dst, windows) ==
    IF ~exists(disk, src) THEN Refused("Source file does not exist")
    ELSE IF ~is_file(disk, src) THEN Refused("Source path is not a file")
    ELSE IF ~is_valid_filename(dst.name) THEN Refused(InvalidReason(dst.name))
    ELSE IF windows /\ ~check_path_length(dst, PathLengthLimit).ok
         THEN check_path_length(dst, PathLengthLimit)
    ELSE check_writable(disk, src)

RECURSIVE check_batch_rename(_, _, _)
check_batch_rename(disk, ops, windows) ==
    IF ops = <<>> THEN <<>>
    ELSE LET src == Head(ops).src
             dst == Head(ops).dst
             r == check_rename_op(disk, src, dst, windows)
         IN (IF r.ok THEN <<>>
             ELSE << [src |-> src, dst |-> dst, error |-> r.error] >>)
            \o check_batch_rename(disk, Tail(ops), windows)

DeepDir == <<"d", "e", "e", "p", "d">>

\* Destinations: a free name, a taken one, an illegal one, a name of the
\* greatest legal length in a directory deep enough for the path to pass
\* the ceiling, and a name one letter too long.
CheckedDestinations ==
    { Path(<<"d">>, Name2t), Path(<<"d">>, <<"*">>),
      Path(DeepDir, LongName(MaxNameLen)),
      Path(<<"d">>, LongName(MaxNameLen + 1)) }

CheckedOps == [src : ExecPaths, dst : CheckedDestinations]

InitSafety ==
    /\ \E S \in SUBSET ExecPaths :
          /\ Cardinality(S) <= MaxDisk
          /\ fs \in [S -> [kind : Kinds, writable : BOOLEAN]]
    /\ files = <<>>
    /\ ci = FALSE
    /\ call = NoCall
    /\ plan = EmptyPlan
    /\ ResolverIdle
    /\ ExecIdle

\* The call of check_batch_rename(ops) on some platform; result holds the
\* list it returns.  The function keeps no state between calls, so one
\* call per behaviour covers them all.
CheckBatch ==
    /\ call = NoCall
    /\ \E n \in 0..MaxOps, windows \in BOOLEAN :
          \E ops \in [1..n -> CheckedOps] :
              /\ call' = [fn |-> "check_batch_rename", ops |-> ops,
                          windows |-> windows]
              /\ result' = check_batch_rename(fs, ops, windows)
    /\ UNCHANGED <<fs, files, ci, plan, resolverVars, pc, dryRun, logDir,
                   posix, idx, tempMap, fs0, log, cleanupVars>>

NextSafety == CheckBatch

SpecSafety == InitSafety /\ [][NextSafety]_vars

-----------------------------------------------------------------------------
(* Properties of execute_rename.                                           *)

Ops == valid_ops(plan)

DistinctSources ==
    \A i, j \in 1..Len(Ops) : i # j => Ops[i].src # Ops[j].src

DistinctDestinations ==
    \A i, j \in 1..Len(Ops) : i # j => Ops[i].dst # Ops[j].dst

SourcesExist == \A i \in 1..Len(Ops) : Ops[i].src \in DOMAIN fs0

\* Every destination is a free name, or the name of a file that the plan
\* itself renames away: the plan permutes or chains names of its batch.
DestinationsVacated ==
    \A i \in 1..Len(Ops) :
        \/ Ops[i].dst \notin DOMAIN fs0
        \/ \E j \in 1..Len(Ops) : Ops[j].src = Ops[i].dst

\* The content c is stored under some name.
Present(c) == \E q \in DOMAIN fs : fs[q] = c

Holds(p, c) == p \in DOMAIN fs /\ fs[p] = c

Renames == { k \in 1..Len(log) : log[k].kind = "rename" }

Injected == { k \in 1..Len(log) : log[k].inject }

SuccessAt(i) == \E k \in 1..Len(result.success) : result.success[k].i = i

FailedWith(i, error) ==
    \E k \in 1..Len(result.failed) :
        result.failed[k].i = i /\ result.failed[k].error[1] = error

\* C2: for a plan with pairwise-distinct sources and pairwise-distinct
\* destinations, whatever renames fail, every file that existed when
\* execution began still exists, and no rename the engine issues replaces
\* an existing file.  (Stated here for the plans whose destinations are
\* free or vacated by the plan itself, a case of the claim.)
C2_NoFileLost ==
    (pc # "idle" /\ DistinctSources /\ DistinctDestinations
        /\ DestinationsVacated) =>
        /\ \A p \in DOMAIN fs0 : Present(fs0[p])
        /\ \A k \in Renames : ~log[k].replaced

\* Operation i's file after the run: at its destination, back at its
\* source, or under its temp name with a record that restoring failed.
FileAccountedFor(i) ==
    \/ Holds(Ops[i].dst, fs0[Ops[i].src])
    \/ Holds(Ops[i].src, fs0[Ops[i].src])
    \/ \E k \in 1..Len(tempMap) :
          /\ tempMap[k].i = i
          /\ Holds(tempMap[k].temp, fs0[Ops[i].src])
          /\ FailedWith(i, "Phase 2 failed (restore also failed)")

\* The only renames the operating system refused are the phase-2 rename of
\* operation i and possibly its restore.
OnlyPhase2Fails(i) ==
    /\ \E k \in Injected : log[k].step = "phase2" /\ log[k].i = i
    /\ \A k \in Injected :
          log[k].i = i /\ log[k].step \in {"phase2", "restore"}

\* C3: when the phase-2 rename of operation i fails, operation i's file
\* ends at its destination, restored at its source name, or under its temp
\* name with a restore-failed record: it is never missing or overwritten.
\* (The claim also says that every other operation ends as it would have.)
C3_FailedFileKept ==
    (pc = "done" /\ ~dryRun /\ DistinctSources /\ DistinctDestinations
        /\ SourcesExist /\ DestinationsVacated) =>
        \A i \in 1..Len(Ops) : OnlyPhase2Fails(i) => FileAccountedFor(i)

\* C4: a plan that permutes or chains names of one directory, with
\* pairwise-distinct destinations, run without any operating-system
\* failure: every operation succeeds, each destination holds what its
\* source held, and no other file is touched or replaced.
C4_PermutationSucceeds ==
    (pc = "done" /\ ~dryRun /\ Injected = {} /\ DistinctSources
        /\ DistinctDestinations /\ SourcesExist /\ DestinationsVacated) =>
        /\ result.failed = <<>>
        /\ result.success = [i \in 1..Len(Ops) |-> [i |-> i, op |-> Ops[i]]]
        /\ \A i \in 1..Len(Ops) : Holds(Ops[i].dst, fs0[Ops[i].src])
        /\ \A p \in DOMAIN fs0 \ { Ops[i].src : i \in 1..Len(Ops) } :
              Holds(p, fs0[p])
        /\ \A k \in Renames : ~log[k].replaced

\* A swap of two existing files that ran to the end without failure.
C4_Witness ==
    /\ pc = "done" /\ ~dryRun /\ Injected = {}
    /\ DistinctSources /\ DistinctDestinations /\ SourcesExist
    /\ Len(Ops) = 2
    /\ Ops[1].src = Ops[2].dst /\ Ops[2].src = Ops[1].dst
    /\ Len(result.success) = 2
    /\ Holds(Ops[1].dst, fs0[Ops[1].src])
    /\ Holds(Ops[2].dst, fs0[Ops[2].src])

\* How often operation i appears in the three result lists.
Occurrences(i) ==
    Cardinality({ k \in 1..Len(result.success) : result.success[k].i = i })
    + Cardinality({ k \in 1..Len(result.failed) : result.failed[k].i = i })
    + Cardinality({ k \in 1..Len(result.skipped) : result.skipped[k].i = i })

ResultEntries ==
    { result.success[k] : k \in 1..Len(result.success) }
    \cup { [i |-> result.failed[k].i, op |-> result.failed[k].op] :
             k \in 1..Len(result.failed) }
    \cup { result.skipped[k] : k \in 1..Len(result.skipped) }

\* C5: when execute_rename returns, every valid operation is in exactly
\* one of succeeded, failed, skipped, exactly once, and the lists hold
\* nothing else.
C5_ResultPartition ==
    pc = "done" =>
        /\ \A i \in 1..Len(Ops) : Occurrences(i) = 1
        /\ \A e \in ResultEntries : e.i \in 1..Len(Ops) /\ e.op = Ops[e.i]
        /\ Len(result.success) + Len(result.failed) + Len(result.skipped)
              = Len(Ops)

\* A run that returned with an operation in each of succeeded and failed.
C5_Witness ==
    /\ pc = "done" /\ ~dryRun
    /\ result.success # <<>>
    /\ result.failed # <<>>

\* C6: a dry run issues no rename, creates no temp name, writes no log
\* file even when a log directory is given, and returns the valid
\* operations, in plan order, as succeeded, with failed and skipped empty.
C6_DryRunPure ==
    (pc # "idle" /\ dryRun) =>
        /\ pc = "done"
        /\ fs = fs0
        /\ Renames = {}
        /\ \A k \in 1..Len(log) : log[k].kind = "progress"
        /\ \A p \in DOMAIN fs : ~is_temp_name(p.name)
        /\ tempMap = <<>>
        /\ result.success = [i \in 1..Len(Ops) |-> [i |-> i, op |-> Ops[i]]]
        /\ result.failed = <<>>
        /\ result.skipped = <<>>

\* A dry run of two valid operations with a log directory supplied.
C6_Witness ==
    /\ pc = "done" /\ dryRun /\ logDir
    /\ Len(Ops) = 2
    /\ Len(result.success) = 2

\* The positions of plan.ops whose source differs from the destination.
Differing == { j \in 1..Len(plan.ops) : plan.ops[j].src # plan.ops[j].dst }

\* The rename event e is one of the calls execute_rename makes for the
\* operation op.
RenameOf(e, op) ==
    \/ e.step = "phase1" /\ e.src = op.src /\ is_temp_name(e.dst.name)
    \/ e.step = "phase2" /\ is_temp_name(e.src.name) /\ e.dst = op.dst
    \/ e.step = "restore" /\ is_temp_name(e.src.name) /\ e.dst = op.src

\* C15: valid_ops holds exactly the operations of ops whose source differs
\* from the destination, in the same order; total_count is its length;
\* and every rename execute_rename issues belongs to such an operation.
C15_ValidOpsExact ==
    LET differing == Differing
        valid == valid_ops(plan)
        upTo(j) == Cardinality({ i \in differing : i <= j })
    IN  /\ Len(valid) = Cardinality(differing)
        /\ \A j \in differing : valid[upTo(j)] = plan.ops[j]
        /\ total_count(plan) = Len(valid)
        /\ \A k \in 1..Len(log) :
              log[k].kind = "rename" =>
                  /\ log[k].src # log[k].dst
                  /\ \E j \in differing :
                        /\ upTo(j) = log[k].i
                        /\ RenameOf(log[k], plan.ops[j])
        /\ (differing = {} /\ pc # "idle") => (pc = "done" /\ log = <<>>)

\* A finished run of a plan whose first operation keeps its file in place
\* and whose second operation was carried out.
C15_Witness ==
    /\ pc = "done" /\ ~dryRun
    /\ Len(plan.ops) = 2
    /\ plan.ops[1].src = plan.ops[1].dst
    /\ plan.ops[2].src # plan.ops[2].dst
    /\ Len(result.success) = 1
    /\ Renames # {}

\* Writing the plan log or the result log failed.
LogWriteFailed ==
    \E k \in 1..Len(log) :
        log[k].kind \in {"plan_log", "result_log"} /\ ~log[k].ok

\* C19: on a non-dry run with a log directory, a failure to write the plan
\* log or the result log is not raised out of execute_rename: the renames
\* of every valid operation are attempted and the result is returned.
C19_LogFailureTolerated ==
    (~dryRun /\ logDir /\ LogWriteFailed) =>
        /\ pc # "raised"
        /\ pc = "done" =>
              \A i \in 1..Len(Ops) :
                  \E k \in Renames : log[k].i = i /\ log[k].step = "phase1"

\* C20: a plan with a non-empty errors list is never executed:
\* execute_rename issues no filesystem rename for it.
C20_ErrorPlanNotExecuted ==
    plan.errors # <<>> => Renames = {}

\* The rename events of one step of execute_rename.
StepRenames(step) == { k \in Renames : log[k].step = step }

\* C22: on a non-dry run every valid operation has had its phase-1 step
\* (the rename source -> temp, or the finding that the source is missing),
\* in plan order, before any phase-2 rename is issued; the phase-2 renames
\* temp -> destination are issued in plan order, for exactly the operations
\* whose phase-1 rename succeeded, each after that phase-1 rename.
C22_TwoFullPasses ==
    LET first == StepRenames("phase1")
        second == StepRenames("phase2")
    IN  /\ \A k \in first, l \in second : k < l
        /\ \A k, l \in first : k < l => log[k].i < log[l].i
        /\ \A k, l \in second : k < l => log[k].i < log[l].i
        /\ second # {} =>
              \A i \in 1..Len(Ops) :
                  \/ \E k \in first : log[k].i = i
                  \/ FailedWith(i, "Source file does not exist")
        /\ \A l \in second :
              \E k \in first :
                  /\ log[k].ok /\ log[k].i = log[l].i
                  /\ log[k].src = Ops[log[k].i].src
                  /\ log[l].src = log[k].dst
                  /\ log[l].dst = Ops[log[l].i].dst
        /\ pc = "done" =>
              \A k \in first : log[k].ok => \E l \in second : log[l].i = log[k].i

\* A finished run of two operations: the phase-1 rename of the first was
\* refused, the second went through both phases.
C22_Witness ==
    /\ pc = "done" /\ ~dryRun /\ Len(Ops) = 2
    /\ \E k \in StepRenames("phase1") : log[k].i = 1 /\ ~log[k].ok
    /\ \E k \in StepRenames("phase1") : log[k].i = 2 /\ log[k].ok
    /\ \E l \in StepRenames("phase2") : log[l].i = 2 /\ log[l].ok
    /\ ~\E l \in StepRenames("phase2") : log[l].i = 1

\* The failed records of operation i.
FailedRecords(i) == { k \in 1..Len(result.failed) : result.failed[k].i = i }

\* The phase-1 step of operation i has been taken.
Phase1Taken(i) ==
    \E k \in 1..Len(log) :
        log[k].kind = "progress" /\ log[k].step = "phase1" /\ log[k].i = i

\* Operation i failed in phase 1 with the given error: it has exactly one
\* failed record, which carries that error, no entry in temp_mapping and
\* no phase-2 or restore rename.
FailedInPhase1(i, error) ==
    /\ Cardinality(FailedRecords(i)) = 1
    /\ FailedWith(i, error)
    /\ ~SuccessAt(i)
    /\ \A k \in 1..Len(tempMap) : tempMap[k].i # i
    /\ \A k \in Renames : log[k].i = i => log[k].step = "phase1"

\* What the claim says of the states of a run.
C23_Recorded ==
    /\ \A i \in 1..Len(Ops) :
          Phase1Taken(i) =>
              LET calls == { k \in StepRenames("phase1") : log[k].i = i }
              IN  /\ calls = {} =>
                        /\ FailedInPhase1(i, "Source file does not exist")
                        /\ \A k \in Renames : log[k].i # i
                  /\ (\E k \in calls : ~log[k].ok) =>
                        /\ FailedInPhase1(i, "Phase 1 failed")
                        /\ Cardinality(calls) = 1
    /\ (pc = "done" /\ ~dryRun) => \A i \in 1..Len(Ops) : Phase1Taken(i)

\* What the claim says of a phase-1 step that fails: the filesystem is as
\* it was, so the file is still under its source name, and the loop goes
\* on with the next operation.
C23_FailingStep ==
    (pc = "phase1" /\ log' # log /\ Len(result'.failed) > Len(result.failed)) =>
        /\ fs' = fs
        /\ (Ops[idx].src \in DOMAIN fs =>
               /\ log'[Len(log')].kind = "rename"
               /\ ~log'[Len(log')].ok
               /\ Ops[idx].src \in DOMAIN fs'
               /\ fs'[Ops[idx].src] = fs[Ops[idx].src])
        /\ (Ops[idx].src \notin DOMAIN fs => log'[Len(log')].kind = "progress")
        /\ tempMap' = tempMap
        /\ IF idx < Len(Ops) THEN pc' = "phase1" /\ idx' = idx + 1
           ELSE pc' = "phase2"

\* C23: in phase 1 an operation whose source does not exist is recorded in
\* failed exactly once, no rename is issued for it and it takes no part in
\* phase 2; an operation whose phase-1 rename raises an OS error is
\* recorded failed once, its file stays under its source name, and the
\* remaining operations are still processed.
C23_Phase1Failures == []C23_Recorded /\ [][C23_FailingStep]_vars

\* A finished run of two operations: the phase-1 rename of the first was
\* refused, and the source of the second was missing.
C23_Witness ==
    /\ pc = "done" /\ ~dryRun /\ Len(Ops) = 2
    /\ FailedWith(1, "Phase 1 failed")
    /\ Ops[1].src \in DOMAIN fs
    /\ FailedWith(2, "Source file does not exist")
    /\ Ops[2].src # Ops[1].src

\* C24: when the phase-2 rename temp -> destination of an operation
\* fails, exactly one restore rename temp -> source is issued, right after
\* it, and exactly one failed record is appended for the operation: it
\* says "restored" and carries the error of the phase-2 rename if the
\* restore succeeded, and otherwise says "restore also failed" and carries
\* both errors.  No restore is issued in any other case.
C24_RestoreReported ==
    LET second == StepRenames("phase2")
        restores == StepRenames("restore")
    IN  /\ \A l \in second :
              ~log[l].ok =>
                  LET i == log[l].i
                      mine == { k \in restores : log[k].i = i }
                      records == FailedRecords(i)
                  IN  /\ mine = { l + 1 }
                      /\ log[l + 1].src = log[l].src
                      /\ log[l + 1].dst = Ops[i].src
                      /\ Cardinality(records) = 1
                      /\ \A k \in records :
                            result.failed[k].error =
                                IF log[l + 1].ok
                                THEN <<"Phase 2 failed (restored)", log[l].error>>
                                ELSE <<"Phase 2 failed (restore also failed)",
                                       log[l].error, log[l + 1].error>>
                      /\ ~SuccessAt(i)
        /\ \A k \in restores :
              /\ k - 1 \in second
              /\ ~log[k - 1].ok
              /\ log[k - 1].i = log[k].i

\* A finished run of two operations whose phase-2 renames both failed: the
\* first file was restored, the restore of the second failed as well.
C24_Witness ==
    /\ pc = "done" /\ ~dryRun /\ Len(Ops) = 2
    /\ FailedWith(1, "Phase 2 failed (restored)")
    /\ FailedWith(2, "Phase 2 failed (restore also failed)")
    /\ Holds(Ops[1].src, fs0[Ops[1].src])
    /\ Ops[2].src \notin DOMAIN fs

\* execute_rename has been left, by return or by an exception.
Left == pc \in {"done", "raised"}

\* C25: when execute_rename is left, every operation whose file was
\* renamed to a temp name has been renamed to its destination or has had
\* a restore attempted, and a temp name created by the run still exists
\* only if its operation has a failed record saying that the restore
\* failed as well.
C25_NoneAbandoned ==
    Left =>
        \A k \in 1..Len(tempMap) :
            LET m == tempMap[k]
            IN  /\ \E l \in Renames :
                      /\ log[l].i = m.i /\ log[l].src = m.temp
                      /\ \/ log[l].step = "phase2" /\ log[l].ok
                         \/ log[l].step = "restore"
                /\ m.temp \in DOMAIN fs =>
                      /\ FailedWith(m.i, "Phase 2 failed (restore also failed)")
                      /\ Cardinality(FailedRecords(m.i)) = 1

\* A finished run of two operations: the first file reached its
\* destination, the second is left under its temp name after its phase-2
\* rename and its restore were both refused.
C25_Witness ==
    /\ pc = "done" /\ ~dryRun /\ Len(Ops) = 2 /\ Len(tempMap) = 2
    /\ SuccessAt(1) /\ tempMap[1].temp \notin DOMAIN fs
    /\ FailedWith(2, "Phase 2 failed (restore also failed)")
    /\ tempMap[2].temp \in DOMAIN fs

\* C26: whatever renames the operating system refuses, no rename error
\* leaves execute_rename: each refused phase-1 or phase-2 rename becomes
\* exactly one failed record carrying its error, the loops go on with the
\* remaining operations, and the run ends by returning a result that
\* holds every valid operation.  (An exception leaves execute_rename only
\* when writing a log file fails.)
C26_RenameErrorsCaptured ==
    /\ pc = "raised" => LogWriteFailed
    /\ \A k \in StepRenames("phase1") \cup StepRenames("phase2") :
          ~log[k].ok =>
              /\ Cardinality(FailedRecords(log[k].i)) = 1
              /\ \A f \in FailedRecords(log[k].i) :
                    /\ Len(result.failed[f].error) >= 2
                    /\ result.failed[f].error[2] = log[k].error
    /\ pc = "phase1" => (idx \in 1..Len(Ops) /\ ENABLED Phase1Step)
    /\ pc = "phase2" =>
          /\ idx \in 1..(Len(tempMap) + 1)
          /\ ENABLED (Phase2Step \/ ExecFinish)
    /\ (pc = "done" /\ ~dryRun) =>
          /\ \A i \in 1..Len(Ops) : Phase1Taken(i) /\ Occurrences(i) = 1
          /\ \A k \in 1..Len(tempMap) :
                \E l \in StepRenames("phase2") : log[l].i = tempMap[k].i

\* A run that returned although the operating system refused a rename in
\* each phase: the phase-1 rename of the first operation and the phase-2
\* rename and the restore of the second.
C26_Witness ==
    /\ pc = "done" /\ ~dryRun /\ Len(Ops) = 2
    /\ \E k \in Injected : log[k].step = "phase1" /\ log[k].i = 1
    /\ \E k \in Injected : log[k].step = "phase2" /\ log[k].i = 2
    /\ \E k \in Injected : log[k].step = "restore" /\ log[k].i = 2
    /\ Len(result.failed) = 2

\* The calls of the progress callback.
Progress == { k \in 1..Len(log) : log[k].kind = "progress" }

\* C29: on a non-dry run the progress callback is called once per phase-1
\* step and once per phase-2 step, each time before the step's rename,
\* always with a total of twice the number of valid operations and with a
\* current step that lies between 1 and the total and grows strictly from
\* call to call; when no phase-1 step failed, the last call reports the
\* total.
C29_ProgressSteps ==
    (pc # "idle" /\ ~dryRun) =>
        LET calls == Progress
            total == 2 * Len(Ops)
        IN  /\ \A k \in calls :
                  /\ log[k].total = total
                  /\ log[k].cur \in 1..total
                  /\ log[k].step \in {"phase1", "phase2"}
            /\ \A k, l \in calls : k < l => log[k].cur < log[l].cur
            /\ \A k, l \in calls :
                  (log[k].step = log[l].step /\ log[k].i = log[l].i) => k = l
            /\ \A l \in StepRenames("phase1") \cup StepRenames("phase2") :
                  /\ l - 1 \in calls
                  /\ log[l - 1].step = log[l].step
                  /\ log[l - 1].i = log[l].i
            /\ Cardinality({ k \in calls : log[k].step = "phase2" })
                  = Cardinality(StepRenames("phase2"))
            /\ pc \in {"phase2", "done"} =>
                  \A i \in 1..Len(Ops) : Phase1Taken(i)
            /\ (pc = "done" /\ Len(Ops) > 0 /\ Len(tempMap) = Len(Ops)) =>
                  \E k \in calls :
                      /\ log[k].cur = total
                      /\ \A l \in calls : l <= k

\* A finished run of two operations without any failure: four calls, the
\* last one reporting step 4 of 4.
C29_Witness ==
    /\ pc = "done" /\ ~dryRun /\ Len(Ops) = 2 /\ Len(result.success) = 2
    /\ Cardinality(Progress) = 4
    /\ \E k \in Progress : log[k].cur = 4 /\ log[k].total = 4

\* The log files of one kind that execute_rename wrote or tried to write.
LogWrites(kind) == { k \in 1..Len(log) : log[k].kind = kind }

\* C30: the plan log is written only on a non-dry run with a log
\* directory, once, and before the first rename; the result log is written
\* only after the last phase-2 step, restores included, as the last thing
\* execute_rename does, and holds exactly the succeeded, failed and
\* skipped lists of the result that is returned.
C30_LogsAroundTheRun ==
    LET planLogs == LogWrites("plan_log")
        resultLogs == LogWrites("result_log")
    IN  /\ planLogs # {} => (~dryRun /\ logDir /\ planLogs = {1})
        /\ \A k \in planLogs, l \in Renames : k < l
        /\ \A k \in planLogs :
              log[k].ok =>
                  /\ Len(log[k].data.operations) = Len(Ops)
                  /\ \A j \in 1..Len(Ops) :
                        /\ log[k].data.operations[j].src = Ops[j].src
                        /\ log[k].data.operations[j].dst = Ops[j].dst
        /\ (logDir /\ Renames # {}) => planLogs = {1}
        /\ resultLogs # {} =>
              /\ ~dryRun /\ logDir /\ Left
              /\ resultLogs = { Len(log) }
              /\ \A m \in 1..Len(tempMap) :
                    \E l \in StepRenames("phase2") : log[l].i = tempMap[m].i
              /\ \A l \in StepRenames("phase2") :
                    ~log[l].ok => l + 1 \in StepRenames("restore")
        /\ \A k \in resultLogs :
              log[k].ok =>
                  /\ pc = "done"
                  /\ Len(log[k].data.success) = Len(result.success)
                  /\ Len(log[k].data.failed) = Len(result.failed)
                  /\ Len(log[k].data.skipped) = Len(result.skipped)
                  /\ \A j \in 1..Len(result.success) :
                        /\ log[k].data.success[j].src = result.success[j].op.src
                        /\ log[k].data.success[j].dst = result.success[j].op.dst
                  /\ \A j \in 1..Len(result.failed) :
                        /\ log[k].data.failed[j].src = result.failed[j].op.src
                        /\ log[k].data.failed[j].dst = result.failed[j].op.dst
                        /\ log[k].data.failed[j].error = result.failed[j].error
        /\ (pc = "done" /\ ~dryRun /\ logDir /\ Len(Ops) > 0) =>
              resultLogs # {}

\* A finished run with a log directory: the plan log first, then the
\* renames of two operations, one of which failed in phase 2 and was
\* restored, then the result log.
C30_Witness ==
    /\ pc = "done" /\ ~dryRun /\ logDir /\ Len(Ops) = 2
    /\ log[1].kind = "plan_log" /\ log[1].ok
    /\ log[Len(log)].kind = "result_log" /\ log[Len(log)].ok
    /\ Len(log[Len(log)].data.success) = 1
    /\ Len(log[Len(log)].data.failed) = 1
    /\ StepRenames("restore") # {}

\* C34: when a run that is not a dry run has returned, the destination of
\* every operation of the succeeded list holds what the operation's source
\* held when the run began, whatever happened to the other operations.
C34_SucceededInPlace ==
    (pc = "done" /\ ~dryRun) =>
        \A k \in 1..Len(result.success) :
            LET op == result.success[k].op
            IN op.src \in DOMAIN fs0 /\ Holds(op.dst, fs0[op.src])

\* The token of a temp name.
TokenOf(name) == SubSeq(name, Len(TempMarker) + 1, Len(TempMarker) + TokenLen)

\* C39: in a run on operations with pairwise-distinct sources the temp
\* paths of the phase-1 renames are pairwise distinct, whether or not
\* their tokens coincide, and no phase-1 rename replaces a file.
C39_TempPathsDistinct ==
    DistinctSources =>
        /\ \A k, l \in StepRenames("phase1") :
              k # l => log[k].dst # log[l].dst
        /\ \A i, j \in 1..Len(tempMap) :
              i # j => tempMap[i].temp # tempMap[j].temp
        /\ \A k \in StepRenames("phase1") : ~log[k].replaced

\* Two files were moved to temp names carrying the same token.
C39_Witness ==
    /\ DistinctSources /\ Len(tempMap) = 2
    /\ TokenOf(tempMap[1].temp.name) = TokenOf(tempMap[2].temp.name)
    /\ tempMap[1].temp # tempMap[2].temp
    /\ tempMap[1].temp \in DOMAIN fs /\ tempMap[2].temp \in DOMAIN fs

-----------------------------------------------------------------------------
(* Properties of cleanup_temp_files.                                       *)

\* cleanup_temp_files has returned.
Cleaned == at > 0 /\ at > Len(items)

\* The renames cleanup_temp_files performed.
Restores == { k \in 1..Len(log) : log[k].step = "cleanup" /\ log[k].ok }

\* C21: cleanup_temp_files renames a temp-named file back to the name it
\* encodes only when no entry of that name exists in the directory; it
\* never replaces an existing entry, leaves every entry without a temp
\* name untouched, returns the number of files it renamed back, and
\* restores at most one of two temp files that encode the same name.
C21_CleanupOnlyIntoFreeNames ==
    /\ \A k \in Restores :
          /\ is_temp_name(log[k].src.name)
          /\ fs0[log[k].src].kind = "file"
          /\ log[k].dst = Path(log[k].src.dir, split(log[k].src.name, 3)[4])
          /\ ~log[k].replaced
    /\ \A p \in DOMAIN fs0 : ~is_temp_name(p.name) => Holds(p, fs0[p])
    /\ count = Cardinality(Restores)
    /\ \A k, l \in Restores : log[k].dst = log[l].dst => k = l

\* C31: a file that phase 1 moved away from its name n sits under a name
\* that is_temp_name recognises and from which the split of
\* cleanup_temp_files recovers exactly n, whatever underscores n holds and
\* whatever the token; so cleanup_temp_files, when no rename is refused,
\* puts every such file back under its name.
C31_TempNameRoundTrip ==
    /\ \A q \in DOMAIN fs :
          fs[q].id # q =>
              /\ is_temp_name(q.name)
              /\ Len(split(q.name, 3)) >= 4
              /\ split(q.name, 3)[4] = fs[q].id.name
              /\ q.dir = fs[q].id.dir
    /\ \A k \in Restores : log[k].dst = fs0[log[k].src].id
    /\ (Cleaned /\ Injected = {}) => \A q \in DOMAIN fs : fs[q].id = q

\* cleanup_temp_files has restored the files ___a__b and __, which phase 1
\* had left under temp names.
C31_Witness ==
    /\ Cleaned /\ count = 2
    /\ \E k \in Restores :
          log[k].dst.name = <<"_", "_", "_", "a", "_", "_", "b">>
    /\ \E k \in Restores : log[k].dst.name = <<"_", "_">>
    /\ \A q \in DOMAIN fs : fs[q].id = q

-----------------------------------------------------------------------------
(* Properties of the safety checks.                                        *)

Checked == call.fn = "check_batch_rename"

\* The conditions under which an operation is to be refused, with the
\* reasons that may be reported for each.
Refusals(src, dst, windows) ==
    (IF src \notin DOMAIN fs \/ fs[src].kind = "link"
     THEN {"Source file does not exist"} ELSE {})
    \cup (IF src \in DOMAIN fs /\ fs[src].kind # "file"
          THEN {"Source path is not a file"} ELSE {})
    \cup (IF ~is_valid_filename(dst.name)
          THEN {InvalidReason(dst.name)} ELSE {})
    \cup (IF windows /\ Len(dst.dir) + 1 + Len(dst.name) > PathLengthLimit
          THEN {"Path length exceeds limit"} ELSE {})
    \cup (IF src \in DOMAIN fs /\ ~fs[src].writable
          THEN {"File is not writable"} ELSE {})

\* The returned list holds, in the order of the input, exactly the
\* operations that are to be refused, each with a reason that applies.
C32_Returned ==
    Checked =>
        LET ops == call.ops
            failing == { i \in 1..Len(ops) :
                           Refusals(ops[i].src, ops[i].dst,
                                    call.windows) # {} }
            nth(k) == CHOOSE i \in failing :
                          Cardinality({ j \in failing : j <= i }) = k
        IN /\ Len(result) = Cardinality(failing)
           /\ \A k \in 1..Len(result) :
                 /\ result[k].src = ops[nth(k)].src
                 /\ result[k].dst = ops[nth(k)].dst
                 /\ result[k].error \in Refusals(ops[nth(k)].src,
                                                 ops[nth(k)].dst,
                                                 call.windows)

\* C32: the list check_batch_rename returns holds, in the order of the
\* input, exactly the operations that are to be refused (source missing or
\* not a regular file, destination name illegal, destination path above
\* the ceiling on Windows, source not writable), each with a reason that
\* applies to it; and the call changes nothing in the tree.
C32_BatchCheckExact == []C32_Returned /\ [][fs' = fs]_vars

\* A Windows call on two operations of which the first passes although
\* its destination is 255 letters long, and the second is refused for a
\* path above the ceiling.
C32_Witness ==
    /\ Checked /\ call.windows /\ Len(call.ops) = 2
    /\ call.ops[1].dst = Path(<<"d">>, Name2t)
    /\ call.ops[2].dst = Path(DeepDir, LongName(MaxNameLen))
    /\ Len(result) = 1
    /\ result[1].error = "Path length exceeds limit"
    /\ result[1].src = call.ops[2].src

-----------------------------------------------------------------------------
(* Properties of a generated plan and its execution.                       *)

\* The name plan_replace_rename computes for the k-th file of the batch.
ReplacedName(k) ==
    replace_text(files[k].name, call.old, call.new, call.caseSensitive)

\* The k-th file of the batch is to change the letter case of its name and
\* nothing else.
CaseOnly(k) ==
    /\ ReplacedName(k) # files[k].name
    /\ Lower(ReplacedName(k)) = Lower(files[k].name)

\* The k-th file has the operation to exactly its desired name, without a
\* note, as a valid operation; and a run that met no failing rename has
\* left the file under that name.
RecasedAsDesired(k) ==
    LET dst == Path(files[k].path.dir, ReplacedName(k))
        op == RenameOp(files[k].path, dst, <<>>)
    IN /\ \E j \in 1..Len(plan.ops) : plan.ops[j] = op
       /\ \E j \in 1..Len(ValidOps) : ValidOps[j] = op
       /\ ~is_same(op)
       /\ is_case_only_change(op)
       /\ (pc = "done" /\ ~dryRun /\ \A e \in Renames : log[e].ok)
             => Holds(dst, fs0[files[k].path])

Rivalled(k) ==
    \E j \in 1..Len(plan.ops) :
        /\ plan.ops[j].src # files[k].path
        /\ plan.ops[j].dst.dir = files[k].path.dir
        /\ CaseFold(plan.ops[j].dst.name) = CaseFold(ReplacedName(k))

====
